---- MODULE Spec2Model ----
(***************************************************************************)
(* nlm2elf (src/src/bin/nlm2elf.rs): the bit streamer, the Huffman tree    *)
(* reader, the LZ unpacker, NLM::new, the container readers and write_elf. *)
(*                                                                         *)
(* A u32 is kept at full width as a pair <<hi, lo>> of 16-bit halves, so   *)
(* that every sum that can pass 2^32 - 1 is computed with its carry.       *)
(* A byte is a number in 0..255 and an image is a sequence of bytes        *)
(* (index i of the code is element i + 1).                                 *)
(***************************************************************************)
EXTENDS Integers, Sequences, FiniteSets, TLC

VARIABLES
    build,      \* how the binary was built (see Builds)
    sdata,      \* streamer harness: the byte buffer under the cursor
    stream,     \* streamer harness: the Streamer
    drawn,      \* streamer harness: number of bits requested so far
    last,       \* streamer harness: the last call, [k, v]
    argc,       \* main: args.len()
    file,       \* main: the input file, [readable, bytes]
    pc,         \* where main (or write_elf) is
    st,         \* NLM::new: the Streamer over the packed payload
    trees,      \* NLM::new: <<tree1, tree2, tree3>>
    length,     \* NLM::new: the 32-bit total-length field
    declen,     \* unpack: decompress_len
    unpacked,   \* unpack: the output vector (result)
    last_cmd,   \* unpack: the command of the last iteration
    nlm,        \* the NLM object, [header, data]
    err,        \* the Err main returned, or the panic message
    elf_out,    \* out.elf: what write_elf wrote ([status |-> "none"]: no file)
    nlm_out,    \* out.nlm: [written, data]
    img,        \* write_elf: nlm_data, the working copy of the image
    fixq,       \* write_elf: the fixups not yet applied
    lastfix     \* write_elf: the fixup of the last iteration, [taken, fixup, before, status]

streamVars == <<sdata, stream, drawn, last>>
mainVars == <<argc, file, st, trees, length, declen, unpacked, last_cmd, err, nlm_out>>
elfVars == <<img, fixq, lastfix>>
\* what write_elf leaves alone of main's and NLM::new's state
mainVars0 == <<argc, file, st, trees, length, declen, unpacked, last_cmd, nlm_out>>
vars == <<build, sdata, stream, drawn, last, argc, file, pc, st, trees, length, declen,
          unpacked, last_cmd, nlm, err, elf_out, nlm_out, img, fixq, lastfix>>

(***************************************************************************)
(* The build.  The source leaves two things to the build:                  *)
(*  overflow_checks  u32/usize `+`, `-`, `+=` panic on overflow (a debug   *)
(*                   profile) or wrap (a release profile);                 *)
(*  read_exact_eof   where a failed read_exact (read_u32 near the end of   *)
(*                   the input) leaves the cursor.  Read::read_exact       *)
(*                   documents the number of bytes consumed on error as    *)
(*                   unspecified: Cursor either stays where it was or is   *)
(*                   placed at the end of the input.                       *)
(***************************************************************************)
Builds == [overflow_checks : BOOLEAN, read_exact_eof : BOOLEAN]

\* ------------------------------------------------------------------ u32
HalfWord == 256 * 256

Pow2(n) == 2 ^ n

\* LittleEndian::read_u32 of four bytes
LeU32(b0, b1, b2, b3) == <<b3 * 256 + b2, b1 * 256 + b0>>

\* value >> 1
Shr1(w) == <<w[1] \div 2, (w[2] \div 2) + (w[1] % 2) * 32768>>

\* value & 1
LowBit(w) == w[2] % 2

\* result |= 1 << bit, for a bit of result that is still clear
SetBit(w, bit) ==
    IF bit < 16 THEN <<w[1], w[2] + Pow2(bit)>> ELSE <<w[1] + Pow2(bit - 16), w[2]>>

\* a u32 below 2^31 as a number
IsSmall(w) == w[1] < 32768
ToNat(w) == w[1] * HalfWord + w[2]
FromNat(n) == <<n \div HalfWord, n % HalfWord>>

\* ------------------------------------------------------------- Streamer
Streamer_new(pos) == [value |-> <<0, 0>>, bits_left |-> 0, pos |-> pos, eos |-> FALSE]

\* the bytes the `while let Ok(v) = read_u8()` loop gets, from cursor position pos
TailBytes(data, pos) == IF pos >= Len(data) THEN <<>> ELSE SubSeq(data, pos + 1, Len(data))

\* value |= (v as u32) << shift, shift = 0, 8, 16 (at most three bytes follow
\* a failed read_u32)
TailValue(bytes) ==
    <<IF Len(bytes) >= 3 THEN bytes[3] ELSE 0,
      (IF Len(bytes) >= 2 THEN bytes[2] * 256 ELSE 0) + (IF Len(bytes) >= 1 THEN bytes[1] ELSE 0)>>

fill_buffer_and_return_bit(s, data) ==
    IF s.pos + 4 <= Len(data)
    THEN LET value == LeU32(data[s.pos + 1], data[s.pos + 2], data[s.pos + 3], data[s.pos + 4])
         IN  [s |-> [s EXCEPT !.value = Shr1(value), !.bits_left = 31, !.pos = s.pos + 4],
              bit |-> LowBit(value)]
    ELSE LET from == IF build.read_exact_eof THEN Len(data) ELSE s.pos
             tail == TailBytes(data, from)
             value == TailValue(tail)
             left == s.bits_left + 8 * Len(tail)
             at == IF from > Len(data) THEN from ELSE Len(data)
         IN  IF left = 0
             THEN [s |-> [s EXCEPT !.eos = TRUE, !.pos = at], bit |-> 0]   \* panic!("end of stream")
             ELSE [s |-> [s EXCEPT !.value = Shr1(value), !.bits_left = left - 1, !.pos = at],
                   bit |-> LowBit(value)]

\* one bit, from the buffer or by a refill (the body of read_bit and of
\* read_bits' loop)
NextBit(s, data) ==
    IF s.bits_left = 0
    THEN fill_buffer_and_return_bit(s, data)
    ELSE [s |-> [s EXCEPT !.bits_left = @ - 1, !.value = Shr1(@)], bit |-> LowBit(s.value)]

RECURSIVE ReadBitsLoop(_, _, _, _, _)
ReadBitsLoop(s, data, bit, count, result) ==
    IF bit = count \/ s.eos
    THEN [s |-> s, v |-> result]
    ELSE LET r == NextBit(s, data)
         IN  ReadBitsLoop(r.s, data, bit + 1, count,
                          IF r.bit # 0 /\ ~r.s.eos THEN SetBit(result, bit) ELSE result)

read_bits(s, data, count) == ReadBitsLoop(s, data, 0, count, <<0, 0>>)

read_bit(s, data) == NextBit(s, data)

RECURSIVE drop_bits(_)
drop_bits(s) ==
    IF s.bits_left % 8 = 0 THEN s
    ELSE drop_bits([s EXCEPT !.bits_left = @ - 1, !.value = Shr1(@)])

\* ------------------------------------------------------- Huffman trees
\* Node { link: Option<(Box<Node>, Box<Node>)>, value: u8 }: link is <<>> (None)
\* or <<first, second>>
Node_new == [link |-> <<>>, value |-> 0]

\* read_tree storing the subtree it read first as the second child
RECURSIVE read_tree_SecondFirst(_, _)
read_tree_SecondFirst(s, data) ==
    LET b == read_bit(s, data)
    IN  IF b.s.eos THEN [s |-> b.s, t |-> Node_new]
        ELSE IF b.bit # 0
        THEN LET v == read_bits(b.s, data, 8)
             IN  [s |-> v.s, t |-> [Node_new EXCEPT !.value = ToNat(v.v)]]
        ELSE LET first == read_tree_SecondFirst(b.s, data)
                 second == read_tree_SecondFirst(first.s, data)
             IN  [s |-> second.s, t |-> [Node_new EXCEPT !.link = <<second.t, first.t>>]]

\* read_tree (its depth argument is never read)
RECURSIVE read_tree(_, _)
read_tree(s, data) ==
    LET b == read_bit(s, data)
    IN  IF b.s.eos THEN [s |-> b.s, t |-> Node_new]
        ELSE IF b.bit # 0
        THEN LET v == read_bits(b.s, data, 8)
             IN  [s |-> v.s, t |-> [Node_new EXCEPT !.value = ToNat(v.v)]]
        ELSE LET first == read_tree(b.s, data)
                 second == read_tree(first.s, data)
             IN  [s |-> second.s, t |-> [Node_new EXCEPT !.link = <<first.t, second.t>>]]

RECURSIVE decode_from_tree(_, _, _)
decode_from_tree(s, data, node) ==
    IF node.link = <<>> THEN [s |-> s, v |-> node.value]
    ELSE LET b == read_bit(s, data)
         IN  IF b.s.eos THEN [s |-> b.s, v |-> 0]
             ELSE decode_from_tree(b.s, data, IF b.bit = 0 THEN node.link[1] ELSE node.link[2])

\* --------------------------------------------------------------- unpack
\* `for n in 0..count { let b = result[offset + n]; result.push(b); }`.
\* offset is result.len() - delta; a negative offset stands for the wrapped
\* usize (2^64 + offset), which indexes nothing until offset + n wraps back
\* to 0 or more.
RECURSIVE CopyLoop_RepeatsFirst(_, _, _, _)
CopyLoop_RepeatsFirst(result, offset, n, count) ==
    IF n = count THEN [result |-> result, panic |-> "none"]
    ELSE IF offset + n < 0 \/ offset + n >= Len(result)
    THEN [result |-> result, panic |-> "index out of bounds"]
    ELSE CopyLoop_RepeatsFirst(Append(result, result[offset + 1]), offset, n + 1, count)

RECURSIVE CopyLoop(_, _, _, _)
CopyLoop(result, offset, n, count) ==
    IF n = count THEN [result |-> result, panic |-> "none"]
    ELSE IF offset + n < 0 \/ offset + n >= Len(result)
    THEN [result |-> result, panic |-> "index out of bounds"]
    ELSE CopyLoop(Append(result, result[offset + n + 1]), offset, n + 1, count)

\* delta, offset and the copy of one copy-back command
CopyBack(s, result, count, v, b3, kind) ==
    LET delta == b3 * 32 + v
        cmd == [kind |-> kind, count |-> count, delta |-> delta, len_before |-> Len(result)]
    IN  IF delta > Len(result) /\ build.overflow_checks
        THEN [s |-> s, result |-> result, panic |-> "attempt to subtract with overflow", cmd |-> cmd]
        ELSE LET c == CopyLoop(result, Len(result) - delta, 0, count)
             IN  [s |-> s, result |-> c.result, panic |-> c.panic, cmd |-> cmd]

\* `for _ in 0..k { let v = streamer.read_bits(8) as u8; result.push(v); }`
RECURSIVE ReadRaw(_, _, _, _)
ReadRaw(s, data, result, k) ==
    IF k = 0 \/ s.eos THEN [s |-> s, result |-> result]
    ELSE LET v == read_bits(s, data, 8)
         IN  ReadRaw(v.s, data, IF v.s.eos THEN result ELSE Append(result, ToNat(v.v)), k - 1)

EndOfStream(s, result, kind) ==
    [s |-> s, result |-> result, panic |-> "end of stream",
     cmd |-> [kind |-> kind, count |-> 0, delta |-> 0, len_before |-> Len(result)]]

\* One iteration of unpack's `while result.len() < decompress_len` loop, one
\* operator per read of the stream: each takes what was read before it.

\* after `let b3 = decode_from_tree(streamer, tree3)`
UnpackOffset(b3, result, count, v, kind) ==
    IF b3.s.eos THEN EndOfStream(b3.s, result, kind)
    ELSE CopyBack(b3.s, result, count, v, b3.v, kind)

\* after `let v = streamer.read_bits(5)`
UnpackDistance(v, data, result, tree3, count, kind) ==
    UnpackOffset(decode_from_tree(v.s, data, tree3), result, count, ToNat(v.v), kind)

\* after `let b2 = streamer.read_bits(13)`
UnpackLong(count, data, result, tree3) ==
    UnpackDistance(read_bits(count.s, data, 5), data, result, tree3, ToNat(count.v), "longcopy")

\* n = (v << 16) + (bh << 8) + bl + 1 of the three bytes pushed last
EscapeLen(result) ==
    result[Len(result)] * 65536 + result[Len(result) - 1] * 256 + result[Len(result) - 2] + 1

\* after `for _ in 0..n { .. }`
UnpackRawDone(body, n, len_before) ==
    IF body.s.eos THEN EndOfStream(body.s, body.result, "escape")
    ELSE [s |-> body.s, result |-> body.result, panic |-> "none",
          cmd |-> [kind |-> "escape", count |-> 11 + n, delta |-> 0, len_before |-> len_before]]

\* after the eight bytes and bl, bh, v
UnpackEscape(head, data, len_before) ==
    IF head.s.eos THEN EndOfStream(head.s, head.result, "escape")
    ELSE UnpackRawDone(ReadRaw(head.s, data, head.result, EscapeLen(head.result)),
                       EscapeLen(head.result), len_before)

UnpackCommand_Count12(b2, data, result, tree3) ==
    IF b2.s.eos THEN EndOfStream(b2.s, result, "b2")
    ELSE IF b2.v <= 253
    THEN UnpackDistance(read_bits(b2.s, data, 5), data, result, tree3, b2.v, "copy")
    ELSE IF b2.v = 255
    THEN UnpackEscape(ReadRaw(drop_bits(b2.s), data, result, 11), data, Len(result))
    ELSE UnpackLong(read_bits(b2.s, data, 12), data, result, tree3)

\* after `let b2 = decode_from_tree(streamer, tree2)`
UnpackCommand(b2, data, result, tree3) ==
    IF b2.s.eos THEN EndOfStream(b2.s, result, "b2")
    ELSE IF b2.v <= 253
    THEN UnpackDistance(read_bits(b2.s, data, 5), data, result, tree3, b2.v, "copy")
    ELSE IF b2.v = 255
    THEN UnpackEscape(ReadRaw(drop_bits(b2.s), data, result, 11), data, Len(result))
    ELSE UnpackLong(read_bits(b2.s, data, 13), data, result, tree3)

\* after `let b1 = decode_from_tree(streamer, tree1)`
UnpackLiteral(b1, result) ==
    IF b1.s.eos THEN EndOfStream(b1.s, result, "literal")
    ELSE [s |-> b1.s, result |-> Append(result, b1.v), panic |-> "none",
          cmd |-> [kind |-> "literal", count |-> 1, delta |-> 0, len_before |-> Len(result)]]

\* after `let v = streamer.read_bit()`
UnpackTagged(tag, data, result, tree1, tree2, tree3) ==
    IF tag.s.eos THEN EndOfStream(tag.s, result, "tag")
    ELSE IF tag.bit # 0 THEN UnpackLiteral(decode_from_tree(tag.s, data, tree1), result)
    ELSE UnpackCommand(decode_from_tree(tag.s, data, tree2), data, result, tree3)

UnpackIteration(s0, data, result, tree1, tree2, tree3) ==
    UnpackTagged(read_bit(s0, data), data, result, tree1, tree2, tree3)

\* ------------------------------------------------------------ NLMHeader
U32At(data, offs) == LeU32(data[offs + 1], data[offs + 2], data[offs + 3], data[offs + 4])

NLM_HEADER_SIZE == 123

NLMHeader_from_UninitLast(data) ==
    IF Len(data) < NLM_HEADER_SIZE THEN [ok |-> FALSE]
    ELSE [ok |-> TRUE,
          magic |-> SubSeq(data, 1, 24),
          load_version |-> U32At(data, 24),
          name |-> SubSeq(data, 29, 42),
          code_offs |-> U32At(data, 42),
          code_len |-> U32At(data, 46),
          data_offs |-> U32At(data, 50),
          data_len |-> U32At(data, 54),
          custom_data_offs |-> U32At(data, 58),
          custom_data_len |-> U32At(data, 62),
          autoload_offs |-> U32At(data, 66),
          autoload_len |-> U32At(data, 70),
          fixup_offs |-> U32At(data, 74),
          fixup_len |-> U32At(data, 78),
          externals_offs |-> U32At(data, 82),
          externals_len |-> U32At(data, 86),
          exported_offs |-> U32At(data, 90),
          exported_len |-> U32At(data, 94),
          debug_offs |-> U32At(data, 98),
          debug_len |-> U32At(data, 102),
          uninit_len |-> U32At(data, 106),
          start_offs |-> U32At(data, 110),
          term_offs |-> U32At(data, 114),
          check_offs |-> U32At(data, 118),
          nlm_type |-> data[123]]

\* NLMHeader::from: the fields in the order it reads them; None (an io::Error)
\* when the input ends before the header does
NLMHeader_from(data) ==
    IF Len(data) < NLM_HEADER_SIZE THEN [ok |-> FALSE]
    ELSE [ok |-> TRUE,
          magic |-> SubSeq(data, 1, 24),
          load_version |-> U32At(data, 24),
          name |-> SubSeq(data, 29, 42),
          code_offs |-> U32At(data, 42),
          code_len |-> U32At(data, 46),
          data_offs |-> U32At(data, 50),
          data_len |-> U32At(data, 54),
          uninit_len |-> U32At(data, 58),
          custom_data_offs |-> U32At(data, 62),
          custom_data_len |-> U32At(data, 66),
          autoload_offs |-> U32At(data, 70),
          autoload_len |-> U32At(data, 74),
          fixup_offs |-> U32At(data, 78),
          fixup_len |-> U32At(data, 82),
          externals_offs |-> U32At(data, 86),
          externals_len |-> U32At(data, 90),
          exported_offs |-> U32At(data, 94),
          exported_len |-> U32At(data, 98),
          debug_offs |-> U32At(data, 102),
          debug_len |-> U32At(data, 106),
          start_offs |-> U32At(data, 110),
          term_offs |-> U32At(data, 114),
          check_offs |-> U32At(data, 118),
          nlm_type |-> data[123]]

\* "NetWare Loadable Module" followed by 0x1a
NLM_MAGIC ==
    <<78, 101, 116, 87, 97, 114, 101, 32, 76, 111, 97, 100,
      97, 98, 108, 101, 32, 77, 111, 100, 117, 108, 101, 26>>

is_magic_valid(header) == header.magic = NLM_MAGIC

NLM_PACKED_OFFSET == 400
NLM_PACKED_VERSION == 132

\* ---------------------------------------------------- container reader
\* val >> 28 and val & 0x3ffffff
Nibble(w) == w[1] \div 4096

Low26_Mask28(w) == (w[1] % 4096) * HalfWord + w[2]

Low26(w) == (w[1] % 1024) * HalfWord + w[2]

\* a + b on u32: the wrapped sum and whether it passed 2^32 - 1
AddU32(a, b) ==
    LET lo == a[2] + b[2]
        hi == a[1] + b[1] + (lo \div HalfWord)
    IN  [v |-> <<hi % HalfWord, lo % HalfWord>>, overflow |-> hi >= HalfWord]

\* the four bytes LittleEndian::write_u32 stores
LeBytes(w) == <<w[2] % 256, w[2] \div 256, w[1] % 256, w[1] \div 256>>

\* `for _ in 0..len` over a u32: a length of 2^31 or more outlasts every image
LoopCount(w) == IF IsSmall(w) THEN ToNat(w) ELSE 2147483647

\* &self.data[offs..] exists (offs <= data.len()); else the slice panics
SliceFromOk(data, offs) == IsSmall(offs) /\ ToNat(offs) <= Len(data)

\* std::str::from_utf8(bytes).is_ok()
InR(b, lo, hi) == lo <= b /\ b <= hi

RECURSIVE Utf8Valid(_)
Utf8Valid(b) ==
    IF b = <<>> THEN TRUE
    ELSE IF b[1] < 128 THEN Utf8Valid(Tail(b))
    ELSE IF InR(b[1], 194, 223)
    THEN Len(b) >= 2 /\ InR(b[2], 128, 191) /\ Utf8Valid(SubSeq(b, 3, Len(b)))
    ELSE IF InR(b[1], 224, 239)
    THEN /\ Len(b) >= 3
         /\ InR(b[2], IF b[1] = 224 THEN 160 ELSE 128, IF b[1] = 237 THEN 159 ELSE 191)
         /\ InR(b[3], 128, 191)
         /\ Utf8Valid(SubSeq(b, 4, Len(b)))
    ELSE IF InR(b[1], 240, 244)
    THEN /\ Len(b) >= 4
         /\ InR(b[2], IF b[1] = 240 THEN 144 ELSE 128, IF b[1] = 244 THEN 143 ELSE 191)
         /\ InR(b[3], 128, 191)
         /\ InR(b[4], 128, 191)
         /\ Utf8Valid(SubSeq(b, 5, Len(b)))
    ELSE FALSE

Failed(status, why) == [status |-> status, why |-> why, v |-> <<>>]

\* `{:x}` of a type nibble
Hex(n) == <<"0", "1", "2", "3", "4", "5", "6", "7", "8", "9", "a", "b", "c", "d", "e", "f">>[n + 1]

\* get_fixups: the loop over fixup_len words from cursor position pos
RECURSIVE ReadFixups(_, _, _, _)
ReadFixups(data, pos, n, acc) ==
    IF n = 0 THEN [status |-> "ok", why |-> "", v |-> acc]
    ELSE IF pos + 4 > Len(data) THEN Failed("err", "IoError")
    ELSE LET val == U32At(data, pos)
         IN  IF Nibble(val) \notin {0, 4, 8, 12} THEN Failed("panic", "unsupported fixup type " \o Hex(Nibble(val)))
             ELSE ReadFixups(data, pos + 4, n - 1,
                             Append(acc, [type |-> Nibble(val), val |-> Low26(val)]))

get_fixups(self) ==
    IF ~SliceFromOk(self.data, self.header.fixup_offs) THEN Failed("panic", "slice index")
    ELSE ReadFixups(self.data, ToNat(self.header.fixup_offs), LoopCount(self.header.fixup_len), <<>>)

\* get_externals: the loop over num_relocs ref-words
RECURSIVE ReadRefs(_, _, _, _)
ReadRefs(data, pos, n, acc) ==
    IF n = 0 THEN [status |-> "ok", why |-> "", v |-> acc, pos |-> pos]
    ELSE IF pos + 4 > Len(data) THEN [status |-> "err", why |-> "IoError", v |-> <<>>, pos |-> pos]
    ELSE LET val == U32At(data, pos)
         IN  IF Nibble(val) \notin {0, 4, 8, 12}
             THEN [status |-> "panic", why |-> "unrecognized ref type " \o Hex(Nibble(val)), v |-> <<>>,
                   pos |-> pos]
             ELSE ReadRefs(data, pos + 4, n - 1,
                           Append(acc, [type |-> Nibble(val), val |-> Low26(val)]))

RECURSIVE ReadExternals(_, _, _, _)
ReadExternals(data, pos, n, acc) ==
    IF n = 0 THEN [status |-> "ok", why |-> "", v |-> acc]
    ELSE IF pos + 1 > Len(data) THEN Failed("err", "IoError")
    ELSE LET name_len == data[pos + 1]
         IN  IF pos + 1 + name_len + 4 > Len(data) THEN Failed("err", "IoError")
             ELSE LET name == SubSeq(data, pos + 2, pos + 1 + name_len)
                      num_relocs == U32At(data, pos + 1 + name_len)
                  IN  IF ~Utf8Valid(name) THEN Failed("panic", "from_utf8 unwrap")
                      ELSE LET refs == ReadRefs(data, pos + 1 + name_len + 4,
                                                LoopCount(num_relocs), <<>>)
                           IN  IF refs.status # "ok" THEN Failed(refs.status, refs.why)
                               ELSE ReadExternals(data, refs.pos, n - 1,
                                                  Append(acc, [name |-> name, refs |-> refs.v]))

get_externals(self) ==
    IF ~SliceFromOk(self.data, self.header.externals_offs) THEN Failed("panic", "slice index")
    ELSE ReadExternals(self.data, ToNat(self.header.externals_offs),
                       LoopCount(self.header.externals_len), <<>>)

RECURSIVE ReadExports(_, _, _, _)
ReadExports(data, pos, n, acc) ==
    IF n = 0 THEN [status |-> "ok", why |-> "", v |-> acc]
    ELSE IF pos + 1 > Len(data) THEN Failed("err", "IoError")
    ELSE LET symbol_len == data[pos + 1]
         IN  IF pos + 1 + symbol_len + 4 > Len(data) THEN Failed("err", "IoError")
             ELSE LET symbol == SubSeq(data, pos + 2, pos + 1 + symbol_len)
                      val == U32At(data, pos + 1 + symbol_len)
                  IN  IF ~Utf8Valid(symbol) THEN Failed("panic", "from_utf8 unwrap")
                      ELSE IF Nibble(val) \notin {0, 8}
                      THEN Failed("panic", "unrecognized export type " \o Hex(Nibble(val)))
                      ELSE ReadExports(data, pos + 1 + symbol_len + 4, n - 1,
                                       Append(acc, [kind |-> IF Nibble(val) = 0 THEN "Data" ELSE "Code",
                                                    name |-> symbol, val |-> Low26(val)]))

get_exports(self) ==
    IF ~SliceFromOk(self.data, self.header.exported_offs) THEN Failed("panic", "slice index")
    ELSE ReadExports(self.data, ToNat(self.header.exported_offs),
                     LoopCount(self.header.exported_len), <<>>)

RECURSIVE ReadAutoload(_, _, _, _)
ReadAutoload(data, pos, n, acc) ==
    IF n = 0 THEN [status |-> "ok", why |-> "", v |-> acc]
    ELSE IF pos + 1 > Len(data) THEN Failed("err", "IoError")
    ELSE LET entry_len == data[pos + 1]
         IN  IF pos + 1 + entry_len > Len(data) THEN Failed("err", "IoError")
             ELSE LET entry == SubSeq(data, pos + 2, pos + 1 + entry_len)
                  IN  IF ~Utf8Valid(entry) THEN Failed("panic", "from_utf8 unwrap")
                      ELSE ReadAutoload(data, pos + 1 + entry_len, n - 1, Append(acc, entry))

get_autoload(self) ==
    IF ~SliceFromOk(self.data, self.header.autoload_offs) THEN Failed("panic", "slice index")
    ELSE ReadAutoload(self.data, ToNat(self.header.autoload_offs),
                      LoopCount(self.header.autoload_len), <<>>)

\* ------------------------------------------------------------ write_elf
NLM_CODE_VADDR == 268435456     \* 0x10000000
NLM_DATA_VADDR == 1073741824    \* 0x40000000

\* the fixup kinds by type nibble: 0x0 AbsRefToDataFromData, 0x4 AbsRefToDataFromCode,
\* 0x8 AbsRefToCodeFromData, 0xc AbsRefToCodeFromCode
FixupFromData(f) == f.type \in {0, 8}
FixupVaddr(f) == IF f.type \in {0, 4} THEN NLM_DATA_VADDR ELSE NLM_CODE_VADDR
FixupSegment(header, f) == IF FixupFromData(f) THEN header.data_offs ELSE header.code_offs

\* nlm_data with the four bytes at offset (0-based) replaced
PatchU32(nlm_data, offset, w) ==
    [i \in 1..Len(nlm_data) |->
        IF i > offset /\ i <= offset + 4 THEN LeBytes(w)[i - offset] ELSE nlm_data[i]]

\* one arm of the match in the fixup loop
apply_fixup(nlm_data, header, f) ==
    LET sum == AddU32(FromNat(f.val), FixupSegment(header, f))
    IN  IF sum.overflow /\ build.overflow_checks
        THEN [status |-> "panic", why |-> "attempt to add with overflow", img |-> nlm_data]
        ELSE IF ~IsSmall(sum.v) \/ ToNat(sum.v) + 4 > Len(nlm_data)
        THEN [status |-> "panic", why |-> "slice index", img |-> nlm_data]
        ELSE LET offset == ToNat(sum.v)
                 value == AddU32(U32At(nlm_data, offset), FromNat(FixupVaddr(f)))
             IN  IF value.overflow /\ build.overflow_checks
                 THEN [status |-> "panic", why |-> "attempt to add with overflow", img |-> nlm_data]
                 ELSE [status |-> "ok", why |-> "", img |-> PatchU32(nlm_data, offset, value.v)]

\* ELF-32 sizes of object::write::elf::Writer::new(Little, is_64 = false, ..)
ELF_EHDR_SIZE == 52
ELF_PHDR_SIZE == 32
ELF_SHDR_SIZE == 40
ELF_SYM_SIZE == 16
ELF_REL_SIZE == 8
ELF_ALIGN == 4

Align(n, a) == ((n + a - 1) \div a) * a

Reserve_SkipsEmpty(cur, n, align_start) ==
    LET a == IF align_start > 1 /\ n > 0 THEN Align(cur, align_start) ELSE cur
    IN  [offset |-> a, len |-> a + n]

\* Writer::reserve(len, align_start): the aligned offset of the range and the
\* running reserved length after it
Reserve(cur, n, align_start) ==
    LET a == IF align_start > 1 THEN Align(cur, align_start) ELSE cur
    IN  [offset |-> a, len |-> a + n]

\* Writer::write_align(align_start) on a buffer of length cur
WriteAlign(cur, align_start) == IF align_start > 1 THEN Align(cur, align_start) ELSE cur

SN_text == <<46, 116, 101, 120, 116>>   \* ".text"
SN_rel_text == <<46, 114, 101, 108, 46, 116, 101, 120, 116>>   \* ".rel.text"
SN_data == <<46, 100, 97, 116, 97>>   \* ".data"
SN_rel_data == <<46, 114, 101, 108, 46, 100, 97, 116, 97>>   \* ".rel.data"
SN_nlm_autoload == <<46, 110, 108, 109, 46, 97, 117, 116, 111, 108, 111, 97, 100>>   \* ".nlm.autoload"
SN_symtab == <<46, 115, 121, 109, 116, 97, 98>>   \* ".symtab"
SN_strtab == <<46, 115, 116, 114, 116, 97, 98>>   \* ".strtab"
SN_shstrtab == <<46, 115, 104, 115, 116, 114, 116, 97, 98>>   \* ".shstrtab"
SYM_nlm_start == <<110, 108, 109, 95, 115, 116, 97, 114, 116>>   \* "nlm_start"
SYM_nlm_terminate == <<110, 108, 109, 95, 116, 101, 114, 109, 105, 110, 97, 116, 101>>   \* "nlm_terminate"
SYM_nlm_check == <<110, 108, 109, 95, 99, 104, 101, 99, 107>>   \* "nlm_check"

\* the string table object's StringTable writes: a NUL, then every string that
\* is not the tail of another one, each NUL-terminated
IsSuffix(a, b) == Len(a) <= Len(b) /\ SubSeq(b, Len(b) - Len(a) + 1, Len(b)) = a

RECURSIVE SumLens(_)
SumLens(S) ==
    IF S = {} THEN 0
    ELSE LET x == CHOOSE y \in S : TRUE IN Len(x) + 1 + SumLens(S \ {x})

StrtabSize(S) == 1 + SumLens({x \in S : ~\E t \in S : t # x /\ IsSuffix(x, t)})

Range(q) == {q[i] : i \in 1..Len(q)}

HasNul(name) == 0 \in Range(name)

\* the references of all externals as one list of [n, ref], in externals-table
\* order, then reference order (the nested loops of the relocation passes)
RECURSIVE AllRefs(_, _)
AllRefs(externals, n) ==
    IF n >= Len(externals) THEN <<>>
    ELSE [i \in 1..Len(externals[n + 1].refs) |-> [n |-> n, ref |-> externals[n + 1].refs[i]]]
         \o AllRefs(externals, n + 1)

RefFromCode(ref) == ref.type \in {4, 12}
RefIsRel_AbsTypes(ref) == ref.type \in {8, 12}
RefIsRel(ref) == ref.type \in {0, 4}

\* elf::STB_LOCAL / STB_GLOBAL, STT_NOTYPE / STT_FUNC, R_386_32 / R_386_PC32
STB_LOCAL == 0
STB_GLOBAL == 1
STT_NOTYPE == 0
STT_FUNC == 2
R_386_32 == 1
R_386_PC32 == 2

\* the section indices reserve_section_index hands out, in the order of the calls
CODE_INDEX == 1
DATA_INDEX == 3
SYMTAB_INDEX == 6
STRTAB_INDEX == 7
SECTION_NUM == 9

\* elf_symbols after the exports loop: one LOCAL FUNC symbol per export
ExportSymbols(exports) ==
    [i \in 1..Len(exports) |->
        [name |-> exports[i].name,
         index |-> i,
         section |-> IF exports[i].kind = "Code" THEN CODE_INDEX ELSE DATA_INDEX,
         value |-> FromNat(exports[i].val
                           + (IF exports[i].kind = "Code" THEN NLM_CODE_VADDR ELSE NLM_DATA_VADDR)),
         info |-> STB_LOCAL * 16 + STT_FUNC]]

\* the three custom symbols; index is what reserve_symbol_index returns
CustomSymbol(name, index, value) ==
    [name |-> name, index |-> index, section |-> CODE_INDEX, value |-> value,
     info |-> STB_LOCAL * 16 + STT_FUNC]

\* the externals loop: one GLOBAL NOTYPE undefined symbol per external
ExternalSymbols(externals, first_index) ==
    [i \in 1..Len(externals) |->
        [name |-> externals[i].name, index |-> first_index + i - 1, section |-> 0,
         value |-> <<0, 0>>, info |-> STB_GLOBAL * 16 + STT_NOTYPE]]

RelocSym_FirstExternal(elf_symbols, symtab_num_local, n) ==
    elf_symbols[symtab_num_local].index

\* r_sym of a reference of external n
RelocSym(elf_symbols, symtab_num_local, n) == elf_symbols[(symtab_num_local + n - 1) + 1].index

\* one relocation pass: the entries written for the references `from_code` selects
RelocEntries(refs, elf_symbols, symtab_num_local, from_code) ==
    LET mine == SelectSeq(refs, LAMBDA r : RefFromCode(r.ref) = from_code)
    IN  [i \in 1..Len(mine) |->
            [r_offset |-> mine[i].ref.val + (IF from_code THEN NLM_CODE_VADDR ELSE NLM_DATA_VADDR),
             r_sym |-> RelocSym(elf_symbols, symtab_num_local, mine[i].n),
             r_type |-> IF RefIsRel(mine[i].ref) THEN R_386_PC32 ELSE R_386_32]]

\* num_code_relocations / num_data_relocations
CountRelocs(externals, from_code) ==
    Len(SelectSeq(AllRefs(externals, 0), LAMBDA r : RefFromCode(r.ref) = from_code))

\* Writer::write_symbol: st_shndx is the symbol's section, 0 for None
WrittenSym(sym) ==
    [name |-> sym.name, st_info |-> sym.info, st_shndx |-> sym.section, st_value |-> sym.value]

RECURSIVE Concat(_)
Concat(names) == IF names = <<>> THEN <<>> ELSE Head(names) \o <<0>> \o Concat(Tail(names))

ElfFailed(status, why) == [status |-> status, why |-> why]

\* the reservation pass: the offset every reserve_* call returns and the
\* reserved length at the end, from the lengths of what is reserved
ReservedLayout(code_len, data_len, autoload_len, symtab_num, strtab_len, num_code_relocations, num_data_relocations, shstrtab_len) ==
    LET r_ehdr == Reserve(0, ELF_EHDR_SIZE, 1)
        r_phdr == Reserve(r_ehdr.len, 2 * ELF_PHDR_SIZE, ELF_ALIGN)
        r_code == Reserve(r_phdr.len, code_len, 16)
        r_data == Reserve(r_code.len, data_len, 16)
        r_autoload == Reserve(r_data.len, autoload_len, 1)
        r_symtab == Reserve(r_autoload.len, symtab_num * ELF_SYM_SIZE, ELF_ALIGN)
        r_strtab == Reserve(r_symtab.len, strtab_len, 1)
        r_relc == Reserve(r_strtab.len, num_code_relocations * ELF_REL_SIZE, ELF_ALIGN)
        r_reld == Reserve(r_relc.len, num_data_relocations * ELF_REL_SIZE, ELF_ALIGN)
        r_shstrtab == Reserve(r_reld.len, shstrtab_len, 1)
        r_shdr == Reserve(r_shstrtab.len, SECTION_NUM * ELF_SHDR_SIZE, ELF_ALIGN)
    IN  [code |-> r_code.offset, data |-> r_data.offset, autoload |-> r_autoload.offset,
         symtab |-> r_symtab.offset, strtab |-> r_strtab.offset, rel_text |-> r_relc.offset,
         rel_data |-> r_reld.offset, shstrtab |-> r_shstrtab.offset, len |-> r_shdr.len]

\* the writing pass: the buffer length when the code and the data are written
\* and at the end, from the lengths of what is written
WrittenLayout(code_len, data_len, autoload_len, symtab_num, strtab_len, num_code_written, num_data_written, shstrtab_len) ==
    LET w_phdr == ELF_EHDR_SIZE + 2 * ELF_PHDR_SIZE
        w_code_at == WriteAlign(w_phdr, 16)
        w_data_at == WriteAlign(w_code_at + code_len, 16)
        w_autoload == w_data_at + data_len + autoload_len
        w_symtab == WriteAlign(w_autoload, ELF_ALIGN) + symtab_num * ELF_SYM_SIZE
        w_strtab == w_symtab + strtab_len
        w_relc == WriteAlign(w_strtab, ELF_ALIGN) + num_code_written * ELF_REL_SIZE
        w_reld == WriteAlign(w_relc, ELF_ALIGN) + num_data_written * ELF_REL_SIZE
        w_shstrtab == w_reld + shstrtab_len
        w_end == WriteAlign(w_shstrtab, ELF_ALIGN) + SECTION_NUM * ELF_SHDR_SIZE
    IN  [code |-> w_code_at, data |-> w_data_at, len |-> w_end]

\* the nine section headers, in the order they are written
SectionHeaders(res, code_len, data_len, autoload_len, symtab_num, symtab_num_local, strtab_len, num_code_relocations, num_data_relocations, shstrtab_len) ==
    <<[name |-> <<>>, sh_type |-> "NULL", sh_offset |-> 0, sh_size |-> 0,
       sh_link |-> 0, sh_info |-> 0],
      [name |-> SN_text, sh_type |-> "PROGBITS", sh_offset |-> res.code,
       sh_size |-> code_len, sh_link |-> 0, sh_info |-> 0],
      [name |-> SN_rel_text, sh_type |-> "REL", sh_offset |-> res.rel_text,
       sh_size |-> num_code_relocations * ELF_REL_SIZE, sh_link |-> SYMTAB_INDEX,
       sh_info |-> CODE_INDEX],
      [name |-> SN_data, sh_type |-> "PROGBITS", sh_offset |-> res.data,
       sh_size |-> data_len, sh_link |-> 0, sh_info |-> 0],
      [name |-> SN_rel_data, sh_type |-> "REL", sh_offset |-> res.rel_data,
       sh_size |-> num_data_relocations * ELF_REL_SIZE, sh_link |-> SYMTAB_INDEX,
       sh_info |-> DATA_INDEX],
      [name |-> SN_nlm_autoload, sh_type |-> "NOTE", sh_offset |-> res.autoload,
       sh_size |-> autoload_len, sh_link |-> 0, sh_info |-> 0],
      [name |-> SN_symtab, sh_type |-> "SYMTAB", sh_offset |-> res.symtab,
       sh_size |-> symtab_num * ELF_SYM_SIZE, sh_link |-> STRTAB_INDEX,
       sh_info |-> symtab_num_local],
      [name |-> SN_strtab, sh_type |-> "STRTAB", sh_offset |-> res.strtab,
       sh_size |-> strtab_len, sh_link |-> 0, sh_info |-> 0],
      [name |-> SN_shstrtab, sh_type |-> "STRTAB", sh_offset |-> res.shstrtab,
       sh_size |-> shstrtab_len, sh_link |-> 0, sh_info |-> 0]>>

ShstrtabSize ==
    StrtabSize({SN_text, SN_rel_text, SN_data, SN_rel_data, SN_nlm_autoload,
                SN_symtab, SN_strtab, SN_shstrtab})

\* the writing pass with its two assertions, given both layouts
EmitWritten(text, data, autoload_content, e_entry, symtab_num_local, symtab, strtab_len, rel_text, rel_data, num_code_relocations, num_data_relocations, res, wr) ==
    IF res.code # wr.code \/ res.data # wr.data
    THEN ElfFailed("panic", "assert_eq!(sh.elf_offset, writer.len())")
    ELSE IF res.len # wr.len
    THEN ElfFailed("panic", "assert_eq!(writer.reserved_len(), writer.len())")
    ELSE [status |-> "ok", why |-> "",
          e_entry |-> e_entry,
          phdrs |-> <<[p_offset |-> res.code, p_filesz |-> Len(text), p_vaddr |-> NLM_CODE_VADDR,
                       p_flags |-> "RX"],
                      [p_offset |-> res.data, p_filesz |-> Len(data), p_vaddr |-> NLM_DATA_VADDR,
                       p_flags |-> "RW"]>>,
          text |-> text, data |-> data, autoload |-> autoload_content,
          symtab |-> symtab, rel_text |-> rel_text, rel_data |-> rel_data,
          sections |-> SectionHeaders(res, Len(text), Len(data), Len(autoload_content),
                                      Len(symtab), symtab_num_local, strtab_len,
                                      num_code_relocations, num_data_relocations, ShstrtabSize),
          reserved |-> [code |-> res.code, data |-> res.data, len |-> res.len],
          written |-> wr]

\* both passes, given the symbols, the string table size and the relocations
EmitLayout(text, data, autoload_content, e_entry, symtab_num_local, symtab, strtab_len, rel_text, rel_data, num_code_relocations, num_data_relocations) ==
    EmitWritten(text, data, autoload_content, e_entry, symtab_num_local, symtab, strtab_len,
                rel_text, rel_data, num_code_relocations, num_data_relocations,
                ReservedLayout(Len(text), Len(data), Len(autoload_content), Len(symtab),
                               strtab_len, num_code_relocations, num_data_relocations,
                               ShstrtabSize),
                WrittenLayout(Len(text), Len(data), Len(autoload_content), Len(symtab),
                              strtab_len, Len(rel_text), Len(rel_data), ShstrtabSize))

\* the symbol table written (the null symbol first) and the relocations, given
\* elf_symbols
EmitSymbols(text, data, autoload_content, e_entry, symtab_num_local, elf_symbols, externals) ==
    EmitLayout(text, data, autoload_content, e_entry, symtab_num_local,
               <<[name |-> <<>>, st_info |-> 0, st_shndx |-> 0, st_value |-> <<0, 0>>]>>
               \o [i \in 1..Len(elf_symbols) |-> WrittenSym(elf_symbols[i])],
               StrtabSize({elf_symbols[i].name : i \in 1..Len(elf_symbols)}),
               RelocEntries(AllRefs(externals, 0), elf_symbols, symtab_num_local, TRUE),
               RelocEntries(AllRefs(externals, 0), elf_symbols, symtab_num_local, FALSE),
               CountRelocs(externals, TRUE), CountRelocs(externals, FALSE))

EmitExternals_NullNotCounted(text, data, autoload_content, e_entry, locals, externals) ==
    EmitSymbols(text, data, autoload_content, e_entry, Len(locals),
                locals \o ExternalSymbols(externals, 1 + Len(locals)), externals)

\* `let symtab_num_local = writer.symbol_count()` (the null symbol and the
\* locals reserved so far) and the externals loop
EmitExternals(text, data, autoload_content, e_entry, locals, externals) ==
    EmitSymbols(text, data, autoload_content, e_entry, 1 + Len(locals),
                locals \o ExternalSymbols(externals, 1 + Len(locals)), externals)

\* the three custom symbols after the exports
EmitCustom(text, data, autoload_content, exports, externals, start, term, check) ==
    IF build.overflow_checks /\ (start.overflow \/ term.overflow \/ check.overflow)
    THEN ElfFailed("panic", "attempt to add with overflow")
    ELSE IF \E i \in 1..Len(externals) : HasNul(externals[i].name)
    THEN ElfFailed("panic", "add_string: NUL in name")
    ELSE EmitExternals(text, data, autoload_content, start.v,
                       ExportSymbols(exports)
                       \o <<CustomSymbol(SYM_nlm_start, Len(exports) + 1, start.v),
                            CustomSymbol(SYM_nlm_terminate, Len(exports) + 2, term.v),
                            CustomSymbol(SYM_nlm_check, Len(exports) + 3, check.v)>>,
                       externals)

\* after get_autoload()? and get_exports()?
EmitTables(h, text, data, autoload, exports, externals) ==
    IF autoload.status # "ok" THEN ElfFailed(autoload.status, autoload.why)
    ELSE IF exports.status # "ok" THEN ElfFailed(exports.status, exports.why)
    ELSE IF \E i \in 1..Len(exports.v) : HasNul(exports.v[i].name)
    THEN ElfFailed("panic", "add_string: NUL in name")
    ELSE EmitCustom(text, data, Concat(autoload.v), exports.v, externals,
                    AddU32(h.start_offs, FromNat(NLM_CODE_VADDR)),
                    AddU32(h.term_offs, FromNat(NLM_CODE_VADDR)),
                    AddU32(h.check_offs, FromNat(NLM_CODE_VADDR)))

\* h.offs .. h.offs + h.len lies within the image; else the slice panics
SliceOk(nlm_data, offs, len) ==
    IsSmall(offs) /\ IsSmall(len) /\ ToNat(offs) + ToNat(len) <= Len(nlm_data)

\* write_elf from `let mut out_data` on: both passes of the writer
emit_elf(self, nlm_data, externals) ==
    IF ~SliceOk(nlm_data, self.header.code_offs, self.header.code_len)
    THEN ElfFailed("panic", "slice index")
    ELSE IF ~SliceOk(nlm_data, self.header.data_offs, self.header.data_len)
    THEN ElfFailed("panic", "slice index")
    ELSE EmitTables(self.header,
                    SubSeq(nlm_data, ToNat(self.header.code_offs) + 1,
                           ToNat(self.header.code_offs) + ToNat(self.header.code_len)),
                    SubSeq(nlm_data, ToNat(self.header.data_offs) + 1,
                           ToNat(self.header.data_offs) + ToNat(self.header.data_len)),
                    get_autoload(self), get_exports(self), externals)

\* after the fixup loop: `let externals = self.get_externals()?` and the rest
WriteExternals(self, nlm_data, externals) ==
    IF externals.status # "ok" THEN ElfFailed(externals.status, externals.why)
    ELSE emit_elf(self, nlm_data, externals.v)

\* ------------------------------------------------------------- NLM::new
\* `length - NLM_PACKED_OFFSET` as usize.  A length below 400 wraps to nearly
\* 2^64 where overflow is not checked; that, like a length of 2^31 or more, is
\* more than any input of the model can produce.
BeyondAnyInput == Pow2(30)

DecompressLen(len) ==
    IF IsSmall(len) /\ ToNat(len) >= NLM_PACKED_OFFSET /\ ToNat(len) - NLM_PACKED_OFFSET < BeyondAnyInput
    THEN ToNat(len) - NLM_PACKED_OFFSET
    ELSE BeyondAnyInput

LengthUnderflows(len) == IsSmall(len) /\ ToNat(len) < NLM_PACKED_OFFSET

Assemble_KeepsFlag(data, payload, len) ==
    [i \in 1..len |-> IF i <= NLM_PACKED_OFFSET THEN data[i] ELSE payload[i - NLM_PACKED_OFFSET]]

\* the image NLM::new pieces together: vec![0u8; length], the first 400 bytes
\* of the packed file, the unpacked payload, and byte 0x18 set to 4
Assemble(data, payload, len) ==
    [i \in 1..len |->
        IF i = 25 THEN 4
        ELSE IF i <= NLM_PACKED_OFFSET THEN data[i]
        ELSE payload[i - NLM_PACKED_OFFSET]]

\* ----------------------------------------------------- inputs: NLM files
\* The files the model feeds to main: NLM images in the format the readers
\* above take apart, written out field by field.
Zeros(n) == [i \in 1..n |-> 0]

RECURSIVE Flatten(_)
Flatten(qs) == IF qs = <<>> THEN <<>> ELSE Head(qs) \o Flatten(Tail(qs))

Words(ws) == Flatten([i \in 1..Len(ws) |-> LeBytes(ws[i])])

\* the 123 header bytes, in the order NLMHeader::from reads them
HeaderBytes(h) ==
    h.magic \o LeBytes(h.load_version) \o h.name
    \o Words(<<h.code_offs, h.code_len, h.data_offs, h.data_len, h.uninit_len,
               h.custom_data_offs, h.custom_data_len, h.autoload_offs, h.autoload_len,
               h.fixup_offs, h.fixup_len, h.externals_offs, h.externals_len,
               h.exported_offs, h.exported_len, h.debug_offs, h.debug_len,
               h.start_offs, h.term_offs, h.check_offs>>)
    \o <<h.nlm_type>>

\* "MODEL" and NULs: the 14-byte module name
ModuleName == <<77, 79, 68, 69, 76>> \o Zeros(9)

ExternalBytes(x) == <<Len(x.name)>> \o x.name \o LeBytes(FromNat(Len(x.refs))) \o Words(x.refs)
ExportBytes(x) == <<Len(x.name)>> \o x.name \o LeBytes(x.val)
AutoloadBytes(x) == <<Len(x)>> \o x

\* an unpacked image: header, code, data, fixups, externals, exports, autoload
\* one after the other.  c.data_offs, when not <<>>, replaces the data offset.
MkNlm(c) ==
    LET code_at == NLM_HEADER_SIZE
        data_at == code_at + Len(c.code)
        fix_at == data_at + Len(c.data)
        fixb == Words(c.fixups)
        ext_at == fix_at + Len(fixb)
        extb == Flatten([i \in 1..Len(c.externals) |-> ExternalBytes(c.externals[i])])
        exp_at == ext_at + Len(extb)
        expb == Flatten([i \in 1..Len(c.exports) |-> ExportBytes(c.exports[i])])
        auto_at == exp_at + Len(expb)
        autob == Flatten([i \in 1..Len(c.autoload) |-> AutoloadBytes(c.autoload[i])])
        h == [magic |-> c.magic, load_version |-> <<0, 4>>, name |-> ModuleName,
              code_offs |-> FromNat(code_at), code_len |-> FromNat(Len(c.code)),
              data_offs |-> IF c.data_offs = <<>> THEN FromNat(data_at) ELSE c.data_offs,
              data_len |-> FromNat(Len(c.data)),
              uninit_len |-> <<0, 0>>, custom_data_offs |-> <<0, 0>>, custom_data_len |-> <<0, 0>>,
              autoload_offs |-> FromNat(auto_at), autoload_len |-> FromNat(Len(c.autoload)),
              fixup_offs |-> FromNat(fix_at), fixup_len |-> FromNat(Len(c.fixups)),
              externals_offs |-> FromNat(ext_at), externals_len |-> FromNat(Len(c.externals)),
              exported_offs |-> FromNat(exp_at), exported_len |-> FromNat(Len(c.exports)),
              debug_offs |-> <<0, 0>>, debug_len |-> <<0, 0>>,
              start_offs |-> c.start_offs, term_offs |-> <<0, 0>>, check_offs |-> <<0, 0>>,
              nlm_type |-> 0]
    IN  HeaderBytes(h) \o c.code \o c.data \o fixb \o extb \o expb \o autob

\* ------------------------------------------------ inputs: packed payloads
\* v as n bits, least significant first
BitsOf(v, n) == [i \in 1..n |-> (v \div Pow2(i - 1)) % 2]

Leaf(v) == [link |-> <<>>, value |-> v]
Fork(a, b) == [link |-> <<a, b>>, value |-> 0]

\* the bits read_tree rebuilds the tree from
RECURSIVE TreeBits(_)
TreeBits(t) ==
    IF t.link = <<>> THEN <<1>> \o BitsOf(t.value, 8)
    ELSE <<0>> \o TreeBits(t.link[1]) \o TreeBits(t.link[2])

RECURSIVE HasLeaf(_, _)
HasLeaf(t, v) ==
    IF t.link = <<>> THEN t.value = v ELSE HasLeaf(t.link[1], v) \/ HasLeaf(t.link[2], v)

\* the bits decode_from_tree follows to the leaf v
RECURSIVE PathTo(_, _)
PathTo(t, v) ==
    IF t.link = <<>> THEN <<>>
    ELSE IF HasLeaf(t.link[1], v) THEN <<0>> \o PathTo(t.link[1], v)
    ELSE <<1>> \o PathTo(t.link[2], v)

\* tree1: the literals 'A', 'B'; tree2: the counts 0, 1, 3 and the markers
\* 0xfe, 0xff; tree3: the high offset bytes 0 and 1
GenTree1 == Fork(Leaf(65), Leaf(66))
GenTree2 == Fork(Fork(Leaf(1), Leaf(3)), Fork(Leaf(0), Fork(Leaf(254), Leaf(255))))
GenTree3 == Fork(Leaf(0), Leaf(1))

PadBits(bits, unit) == bits \o Zeros((unit - (Len(bits) % unit)) % unit)

\* the bits of one command, appended to the bits before it (the escape's raw
\* bytes start at the next byte boundary)
CmdBits(before, c) ==
    IF c.kind = "literal" THEN before \o <<1>> \o PathTo(GenTree1, c.value)
    ELSE IF c.kind = "copy"
    THEN before \o <<0>> \o PathTo(GenTree2, c.count) \o BitsOf(c.low, 5) \o PathTo(GenTree3, c.high)
    ELSE IF c.kind = "longcopy"
    THEN before \o <<0>> \o PathTo(GenTree2, 254) \o BitsOf(c.count, 13) \o BitsOf(c.low, 5)
         \o PathTo(GenTree3, c.high)
    ELSE PadBits(before \o <<0>> \o PathTo(GenTree2, 255), 8)
         \o Flatten([i \in 1..Len(c.raw) |-> BitsOf(c.raw[i], 8)])

RECURSIVE CmdsBits(_, _)
CmdsBits(before, cmds) ==
    IF cmds = <<>> THEN before ELSE CmdsBits(CmdBits(before, Head(cmds)), Tail(cmds))

\* bits to bytes, the last byte filled with zero bits
RECURSIVE PackBytes(_)
PackBytes(bits) ==
    IF bits = <<>> THEN <<>>
    ELSE IF Len(bits) < 8 THEN PackBytes(PadBits(bits, 8))
    ELSE <<bits[1] + 2 * bits[2] + 4 * bits[3] + 8 * bits[4] + 16 * bits[5] + 32 * bits[6]
           + 64 * bits[7] + 128 * bits[8]>> \o PackBytes(SubSeq(bits, 9, Len(bits)))

\* the packed payload: preamble (a, b), total length, three trees, commands.
\* With `whole`, zero bytes fill the payload up to a multiple of four bytes.
Payload(a, b, len, cmds, whole) ==
    LET bits == CmdsBits(BitsOf(a, 8) \o BitsOf(b, 8) \o BitsOf(len[2], 16) \o BitsOf(len[1], 16)
                         \o TreeBits(GenTree1) \o TreeBits(GenTree2) \o TreeBits(GenTree3), cmds)
        bytes == PackBytes(bits)
    IN  IF whole THEN bytes \o Zeros((4 - (Len(bytes) % 4)) % 4) ELSE bytes

\* the first 400 bytes of a packed file: a header whose code is bytes 0..16 and
\* whose data is bytes 16..32 of the image, no tables; then filler
PackedHeader(magic) ==
    LET h == [magic |-> magic, load_version |-> <<0, NLM_PACKED_VERSION>>, name |-> ModuleName,
              code_offs |-> <<0, 0>>, code_len |-> <<0, 16>>,
              data_offs |-> <<0, 16>>, data_len |-> <<0, 16>>,
              uninit_len |-> <<0, 0>>, custom_data_offs |-> <<0, 0>>, custom_data_len |-> <<0, 0>>,
              autoload_offs |-> <<0, 0>>, autoload_len |-> <<0, 0>>,
              fixup_offs |-> <<0, 0>>, fixup_len |-> <<0, 0>>,
              externals_offs |-> <<0, 0>>, externals_len |-> <<0, 0>>,
              exported_offs |-> <<0, 0>>, exported_len |-> <<0, 0>>,
              debug_offs |-> <<0, 0>>, debug_len |-> <<0, 0>>,
              start_offs |-> <<0, 0>>, term_offs |-> <<0, 0>>, check_offs |-> <<0, 0>>,
              nlm_type |-> 0]
        hb == HeaderBytes(h)
    IN  hb \o [i \in 1..(NLM_PACKED_OFFSET - Len(hb)) |-> (i * 7) % 251]

PackedFile(magic, a, b, len, cmds, whole) == PackedHeader(magic) \o Payload(a, b, len, cmds, whole)

\* ------------------------------------------------- the streamer harness
\* The reference extraction: B is one bit string, byte 0 first, least
\* significant bit of each byte first.
BitAt(B, i) == (B[(i \div 8) + 1] \div Pow2(i % 8)) % 2

RECURSIVE RefBits(_, _, _)
RefBits(B, start, k) ==
    IF k = 0 THEN <<0, 0>>
    ELSE LET rest == RefBits(B, start, k - 1)
         IN  IF BitAt(B, start + k - 1) = 1 THEN SetBit(rest, k - 1) ELSE rest

MaxStreamBytes == 5
\* 0x01 and 0xb2: neither reads the same in both bit orders
StreamBytes == {1, 178}

RECURSIVE SeqsUpTo(_, _)
SeqsUpTo(S, n) ==
    IF n = 0 THEN {<<>>}
    ELSE LET shorter == SeqsUpTo(S, n - 1)
         IN  shorter \cup {Append(q, x) : q \in {p \in shorter : Len(p) = n - 1}, x \in S}

NoErr == [kind |-> "none", a |-> 0, b |-> 0]
NoCmd == [kind |-> "none", count |-> 0, delta |-> 0, len_before |-> 0]
NoNlm == [header |-> [ok |-> FALSE], data |-> <<>>]
NoElf == [status |-> "none", why |-> ""]
NoFix == [taken |-> FALSE, fixup |-> [type |-> 0, val |-> 0], before |-> <<>>, status |-> "none"]

StreamIdle ==
    /\ sdata = <<>>
    /\ stream = Streamer_new(0)
    /\ drawn = 0
    /\ last = [k |-> 0, v |-> <<0, 0>>]

MainIdle ==
    /\ argc = 0
    /\ file = [readable |-> FALSE, bytes |-> <<>>]
    /\ st = Streamer_new(0)
    /\ trees = <<>>
    /\ length = <<0, 0>>
    /\ declen = 0
    /\ unpacked = <<>>
    /\ last_cmd = NoCmd
    /\ err = NoErr
    /\ nlm_out = [written |-> FALSE, data |-> <<>>]

ElfIdle ==
    /\ img = <<>>
    /\ fixq = <<>>
    /\ lastfix = NoFix

\* The streamer does no arithmetic that can overflow: of the build only
\* read_exact_eof reaches it.
StreamInit ==
    /\ build \in {b \in Builds : ~b.overflow_checks}
    /\ MainIdle /\ ElfIdle
    /\ pc = "stream" /\ nlm = NoNlm /\ elf_out = NoElf
    /\ sdata \in SeqsUpTo(StreamBytes, MaxStreamBytes)
    /\ stream = Streamer_new(0)
    /\ drawn = 0
    /\ last = [k |-> 0, v |-> <<0, 0>>]

StreamReadBit ==
    /\ ~stream.eos
    /\ drawn + 1 <= 8 * Len(sdata)
    /\ LET r == read_bit(stream, sdata)
       IN  /\ stream' = r.s
           /\ last' = [k |-> 1, v |-> <<0, r.bit>>]
    /\ drawn' = drawn + 1
    /\ UNCHANGED <<build, sdata, pc, nlm, elf_out, mainVars, elfVars>>

StreamReadBits ==
    /\ ~stream.eos
    /\ \E k \in 1..32 :
        /\ drawn + k <= 8 * Len(sdata)
        /\ LET r == read_bits(stream, sdata, k)
           IN  /\ stream' = r.s
               /\ last' = [k |-> k, v |-> r.v]
        /\ drawn' = drawn + k
    /\ UNCHANGED <<build, sdata, pc, nlm, elf_out, mainVars, elfVars>>

StreamNext == StreamReadBit \/ StreamReadBits

SpecStream == StreamInit /\ [][StreamNext]_vars

\* C2: every read_bit / read_bits(k) that stays within the 8 * len(B) bits of
\* B returns the k bits of the reference extraction that follow the bits drawn
\* before it, bit i of the result being the i-th of them, and never ends in
\* the end-of-stream panic.
C2_StreamerMatchesReference ==
    /\ ~stream.eos
    /\ last.v = RefBits(sdata, drawn - last.k, last.k)

\* ----------------------------------------------------------------- main
MaxCmds == 2

Literal(v) == [kind |-> "literal", value |-> v, count |-> 1, low |-> 0, high |-> 0, raw |-> <<>>]
Copy(count, low, high) ==
    [kind |-> "copy", value |-> 0, count |-> count, low |-> low, high |-> high, raw |-> <<>>]
LongCopy(count, low, high) ==
    [kind |-> "longcopy", value |-> 0, count |-> count, low |-> low, high |-> high, raw |-> <<>>]
\* eight raw bytes, b_low = b_high = b_top = 0 (n = 1), one more raw byte
Escape ==
    [kind |-> "escape", value |-> 0, count |-> 12, low |-> 0, high |-> 0,
     raw |-> <<1, 2, 3, 4, 5, 6, 7, 8, 0, 0, 0, 9>>]

\* commands: literals; copies at distance 1 and 2 (within the output once a
\* byte or two are there), 0 and 33 (never within it), of 0, 1 and 3 bytes; a
\* long copy; an escape; a copy of 0 bytes at distance 1
Commands ==
    {Literal(65), Literal(66),
     Copy(1, 1, 0), Copy(3, 1, 0), Copy(3, 2, 0), Copy(1, 0, 0), Copy(0, 1, 1), Copy(1, 1, 1),
     Copy(0, 1, 0), LongCopy(2, 1, 0), Escape}

RECURSIVE Produced(_)
Produced(cmds) == IF cmds = <<>> THEN 0 ELSE Head(cmds).count + Produced(Tail(cmds))

\* total-length fields: what the commands produce, one byte less, and 399
Lengths(cmds) ==
    {FromNat(NLM_PACKED_OFFSET + Produced(cmds)), FromNat(NLM_PACKED_OFFSET - 1)}
    \cup (IF Produced(cmds) > 0 THEN {FromNat(NLM_PACKED_OFFSET + Produced(cmds) - 1)} ELSE {})

BadMagics == {[NLM_MAGIC EXCEPT ![1] = 110], [NLM_MAGIC EXCEPT ![24] = 0]}

PlainNlm(magic, fixups) ==
    MkNlm([magic |-> magic, code |-> <<195, 0, 0, 0, 8, 0, 0, 0>>, data |-> <<1, 2, 3, 4>>,
           data_offs |-> <<>>, fixups |-> fixups, externals |-> <<>>, exports |-> <<>>,
           autoload |-> <<>>, start_offs |-> <<0, 0>>])

PackedFiles ==
    {PackedFile(NLM_MAGIC, 1, 10, len, cmds, whole) :
        <<cmds, len, whole>> \in
            {<<c, l, w>> \in SeqsUpTo(Commands, MaxCmds) \X {FromNat(n) : n \in 399..430} \X BOOLEAN :
                l \in Lengths(c)}}

MaxFixups == 2
MaxExports == 2
MaxExternals == 2

Image(code, data, data_offs, fixups, externals, exports, autoload) ==
    MkNlm([magic |-> NLM_MAGIC, code |-> code, data |-> data, data_offs |-> data_offs,
           fixups |-> fixups, externals |-> externals, exports |-> exports,
           autoload |-> autoload, start_offs |-> <<0, 0>>])

\* two words per segment: 8 and 0xffffffff, or 0xf0000000 and 0xc0000010 (all
\* but the first pass 2^32 - 1 when one of the two virtual addresses is added)
SegWords ==
    {LeBytes(<<0, 8>>) \o LeBytes(<<65535, 65535>>),
     LeBytes(<<61440, 0>>) \o LeBytes(<<49152, 16>>)}

\* fixup words: the four kinds, at segment offsets 0 and 4
FixupWords == {<<t * 4096, v>> : t \in {0, 4, 8, 12}, v \in {0, 4}}

FixupFiles ==
    {Image(c, d, <<>>, f, <<>>, <<>>, <<>>) :
        c \in SegWords, d \in SegWords, f \in SeqsUpTo(FixupWords, MaxFixups)}
    \* a fixup past the image, one of an unsupported kind, and from-data fixups
    \* under a data offset of 0xfffffffc
    \cup {Image(c, c, <<>>, <<f>>, <<>>, <<>>, <<>>) :
            c \in SegWords, f \in {<<0, 1000>>, <<4096, 0>>}}
    \cup {Image(c, c, <<65535, 65532>>, <<f>>, <<>>, <<>>, <<>>) :
            c \in SegWords, f \in {<<0, 4>>, <<32768, 131>>, <<0, 0>>}}

\* externals: "x" or "yx", with the references of one of five lists
RefLists ==
    {<<>>, <<<<16384, 0>>>>, <<<<32768, 4>>>>, <<<<49152, 0>>, <<0, 4>>>>,
     <<<<0, 0>>, <<16384, 4>>>>}
ExternalSet == {[name |-> n, refs |-> r] : n \in {<<120>>, <<121, 120>>}, r \in RefLists}
\* exports: the code symbol "f" at 0, the data symbol "g" at 4, the code symbol
\* "nlm_start" at 4
ExportSet ==
    {[name |-> <<102>>, val |-> <<32768, 0>>], [name |-> <<103>>, val |-> <<0, 4>>],
     [name |-> SYM_nlm_start, val |-> <<32768, 4>>]}

SymbolFiles ==
    {Image(LeBytes(<<0, 8>>) \o LeBytes(<<0, 9>>), LeBytes(<<0, 7>>) \o LeBytes(<<0, 6>>),
           <<>>, <<>>, x, e, <<>>) :
        x \in SeqsUpTo(ExternalSet, MaxExternals), e \in SeqsUpTo(ExportSet, MaxExports)}

\* code of 0, 4, 16 and 20 bytes, data of 0, 4 and 16 bytes, autoload lists of
\* 0, 1 and 3 content bytes.. and with and without symbols and relocations
LayoutFiles ==
    {Image([i \in 1..c |-> i], [i \in 1..d |-> 100 + i], <<>>, <<>>, x, e, al) :
        c \in {0, 4, 16, 20}, d \in {0, 4, 16},
        al \in {<<>>, <<<<65>>>>, <<<<65, 66>>, <<67>>>>},
        x \in {<<>>, <<[name |-> <<120>>, refs |-> <<<<16384, 0>>>>]>>,
               <<[name |-> <<120>>, refs |-> <<<<0, 0>>>>]>>},
        e \in {<<>>, <<[name |-> <<102>>, val |-> <<32768, 0>>]>>}}

\* fixups and references past the end of their segment, code and data of
\* eight bytes each: a from-code fixup at 8 (the first data word), one at 6
\* (half in the code, half in the data), a from-data fixup at 8 (the first
\* word after the data); a from-code reference at 16, a from-data one at 8
StrayFiles ==
    {Image(LeBytes(<<0, 8>>) \o LeBytes(<<0, 9>>), LeBytes(<<0, 7>>) \o LeBytes(<<0, 6>>),
           <<>>, f, x, <<>>, <<>>) :
        f \in {<<>>, <<<<49152, 8>>>>, <<<<16384, 6>>>>, <<<<0, 8>>>>, <<<<49152, 4>>>>},
        x \in {<<>>, <<[name |-> <<120>>, refs |-> <<<<16384, 16>>>>]>>,
               <<[name |-> <<120>>, refs |-> <<<<32768, 8>>>>]>>,
               <<[name |-> <<120>>, refs |-> <<<<16384, 4>>, <<32768, 4>>>>]>>}}

\* type nibbles: tables of one or two words each, the words taken from the
\* four accepted nibbles (with and without bits 26 and 27 set, which the mask
\* drops) and from nibbles no table accepts (1, 0xe) or only some accept (4, 0xc)
NibbleWords ==
    {<<0, 4>>, <<16384, 0>>, <<32768, 4>>, <<49152, 0>>, <<35840, 4>>, <<19456, 0>>,
     <<4096, 0>>, <<57344, 4>>}

NibbleFiles ==
    {Image(LeBytes(<<0, 8>>) \o LeBytes(<<0, 9>>), LeBytes(<<0, 7>>) \o LeBytes(<<0, 6>>),
           <<>>, t[1], t[2], t[3], <<>>) :
        t \in {<<f, <<>>, <<>>>> : f \in SeqsUpTo(NibbleWords, 2)}
              \cup {<<<<>>, <<[name |-> <<120>>, refs |-> r]>>, <<>>>> : r \in SeqsUpTo(NibbleWords, 2)}
              \cup {<<<<>>, <<>>, [i \in 1..Len(e) |-> [name |-> <<102, 48 + i>>, val |-> e[i]]]>> :
                        e \in SeqsUpTo(NibbleWords, 2)}
              \cup {<<<<w>>, <<[name |-> <<120>>, refs |-> <<w>>]>>, <<[name |-> <<102>>, val |-> w]>>>> :
                        w \in NibbleWords}}

\* names that are not UTF-8 (0xff; 'f' 0xc8; 0x80; 0xc3 '(') next to names that
\* are (ASCII, and 0xc3 0xa9), in each of the three tables with names
Utf8Files ==
    {Image(LeBytes(<<0, 8>>) \o LeBytes(<<0, 9>>), LeBytes(<<0, 7>>) \o LeBytes(<<0, 6>>),
           <<>>, <<>>, x, e, al) :
        x \in {<<>>, <<[name |-> <<255>>, refs |-> <<>>]>>, <<[name |-> <<195, 169>>, refs |-> <<>>]>>},
        e \in {<<>>, <<[name |-> <<102, 200>>, val |-> <<32768, 0>>], [name |-> <<103>>, val |-> <<0, 4>>]>>,
               <<[name |-> <<195, 169>>, val |-> <<32768, 0>>]>>},
        al \in {<<>>, <<<<128>>>>, <<<<65>>, <<195, 40>>>>}}

\* headers whose words that write_elf does not use differ from one another:
\* uninit_len 0x00010002, custom data (0x00030004, 5), debug (7, 0x00090000),
\* term_offs 4, check_offs 6, nlm_type 1 or 5
HeaderFiles ==
    {[PatchU32(PatchU32(PatchU32(PatchU32(PatchU32(PatchU32(PatchU32(f,
        58, <<1, 2>>), 62, <<3, 4>>), 66, <<0, 5>>), 102, <<0, 7>>), 106, <<9, 0>>),
        114, <<0, 4>>), 118, <<0, 6>>) EXCEPT ![NLM_HEADER_SIZE] = t] :
        f \in {PlainNlm(NLM_MAGIC, <<>>), PackedHeader(NLM_MAGIC),
               PackedFile(NLM_MAGIC, 1, 10, FromNat(NLM_PACKED_OFFSET + 1), <<Literal(65)>>, TRUE)},
        t \in {1, 5}}

\* start offsets 4 (inside eight bytes of code), 8 and 100 (past them) and
\* 0xf0000000 (which passes 2^32 - 1 when the code address is added)
EntryFiles ==
    {MkNlm([magic |-> NLM_MAGIC, code |-> LeBytes(<<0, 8>>) \o LeBytes(<<0, 9>>),
            data |-> <<1, 2, 3, 4>>, data_offs |-> <<>>, fixups |-> <<>>, externals |-> <<>>,
            exports |-> e, autoload |-> <<>>, start_offs |-> o]) :
        o \in {<<0, 4>>, <<0, 8>>, <<0, 100>>, <<61440, 0>>},
        e \in {<<>>, <<[name |-> <<102>>, val |-> <<32768, 0>>]>>}}

MainFiles ==
    PackedFiles
    \cup {PackedFile(m, 1, 10, FromNat(NLM_PACKED_OFFSET + 1), <<Literal(65)>>, w) :
            m \in BadMagics, w \in BOOLEAN}
    \cup {PackedFile(NLM_MAGIC, p[1], p[2], FromNat(NLM_PACKED_OFFSET + 1), <<Literal(65)>>, w) :
            p \in {<<0, 10>>, <<1, 0>>, <<10, 1>>}, w \in BOOLEAN}
    \cup {PackedHeader(NLM_MAGIC), SubSeq(PackedHeader(NLM_MAGIC), 1, NLM_HEADER_SIZE), <<>>,
          SubSeq(PackedHeader(NLM_MAGIC), 1, 100)}
    \cup {PlainNlm(m, f) : m \in {NLM_MAGIC} \cup BadMagics,
                           f \in {<<>>, <<<<16384, 4>>>>, <<<<4096, 0>>>>}}
    \cup FixupFiles \cup SymbolFiles \cup LayoutFiles \cup StrayFiles \cup NibbleFiles \cup Utf8Files \cup HeaderFiles \cup EntryFiles

Init ==
    /\ build \in Builds
    /\ argc \in {2, 3, 4}
    /\ file \in {[readable |-> TRUE, bytes |-> b] : b \in MainFiles}
                \cup {[readable |-> FALSE, bytes |-> <<>>]}
    /\ pc = "main"
    /\ st = Streamer_new(0)
    /\ trees = <<>>
    /\ length = <<0, 0>>
    /\ declen = 0
    /\ unpacked = <<>>
    /\ last_cmd = NoCmd
    /\ nlm = NoNlm
    /\ err = NoErr
    /\ elf_out = NoElf
    /\ nlm_out = [written |-> FALSE, data |-> <<>>]
    /\ StreamIdle /\ ElfIdle

Panic(why) == [kind |-> why, a |-> 0, b |-> 0]

\* main up to `let nlm_data = std::fs::read(nlm_fname)?`
MainRead ==
    /\ pc = "main"
    /\ IF argc < 3 THEN pc' = "exit_ok" /\ err' = err                 \* usage, return Ok(())
       ELSE IF ~file.readable THEN pc' = "exit_err" /\ err' = Panic("IoError")
       ELSE pc' = "new" /\ err' = err
    /\ UNCHANGED <<build, streamVars, elfVars, argc, file, st, trees, length, declen, unpacked,
                   last_cmd, nlm, elf_out, nlm_out>>

\* NLM::new up to the call of unpack, one operator per read of the stream
NewResult(status, why, header, a, b, s, tree123, len) ==
    [status |-> status, why |-> why, header |-> header, a |-> a, b |-> b, s |-> s,
     trees |-> tree123, length |-> len]

NewFailed(status, why, a, b) ==
    NewResult(status, why, [ok |-> FALSE], a, b, Streamer_new(0), <<>>, <<0, 0>>)

\* after the three read_tree calls: `length - NLM_PACKED_OFFSET`
NewTrees(header, len, tree1, tree2, tree3) ==
    IF tree3.s.eos THEN NewFailed("panic", "end of stream", 1, 10)
    ELSE IF LengthUnderflows(len.v) /\ build.overflow_checks
    THEN NewFailed("panic", "attempt to subtract with overflow", 1, 10)
    ELSE NewResult("unpack", "", header, 1, 10, tree3.s, <<tree1.t, tree2.t, tree3.t>>, len.v)

NewTree2(header, data, len, tree1, tree2) ==
    NewTrees(header, len, tree1, tree2, read_tree(tree2.s, data))

NewTree1(header, data, len, tree1) ==
    NewTree2(header, data, len, tree1, read_tree(tree1.s, data))

NewLength(header, data, len) == NewTree1(header, data, len, read_tree(len.s, data))

NewPreamble_BothDiffer(header, data, a, b) ==
    IF b.s.eos THEN NewFailed("panic", "end of stream", 0, 0)
    ELSE IF ToNat(a.v) # 1 /\ ToNat(b.v) # 10
    THEN NewFailed("err", "InvalidCompression", ToNat(a.v), ToNat(b.v))
    ELSE NewLength(header, data, read_bits(b.s, data, 32))

\* after `let b = streamer.read_bits(8) as u8`
NewPreamble(header, data, a, b) ==
    IF b.s.eos THEN NewFailed("panic", "end of stream", 0, 0)
    ELSE IF ToNat(a.v) # 1 \/ ToNat(b.v) # 10
    THEN NewFailed("err", "InvalidCompression", ToNat(a.v), ToNat(b.v))
    ELSE NewLength(header, data, read_bits(b.s, data, 32))

NewPacked(header, data, a) == NewPreamble(header, data, a, read_bits(a.s, data, 8))

\* after `let header = NLMHeader::from(&mut rdr)?`
NewHeader(header, data) ==
    IF ~header.ok THEN NewFailed("err", "IoError", 0, 0)
    ELSE IF header.load_version # <<0, NLM_PACKED_VERSION>>
    THEN NewResult("plain", "", header, 0, 0, Streamer_new(0), <<>>, <<0, 0>>)
    ELSE NewPacked(header, data, read_bits(Streamer_new(NLM_PACKED_OFFSET), data, 8))

NLM_new(data) == NewHeader(NLMHeader_from(data), data)

NLMNewDone(r) ==
    /\ pc' = CASE r.status = "plain" -> "loaded"
               [] r.status = "unpack" -> "unpack"
               [] r.status = "err" -> "exit_err"
               [] OTHER -> "panic"
    /\ err' = IF r.status \in {"err", "panic"} THEN [kind |-> r.why, a |-> r.a, b |-> r.b] ELSE err
    /\ nlm' = CASE r.status = "plain" -> [header |-> r.header, data |-> file.bytes]
                [] OTHER -> nlm
    /\ st' = r.s
    /\ trees' = r.trees
    /\ length' = r.length
    /\ declen' = IF r.status = "unpack" THEN DecompressLen(r.length) ELSE declen

NLMNew ==
    /\ pc = "new"
    /\ NLMNewDone(NLM_new(file.bytes))
    /\ UNCHANGED <<build, streamVars, elfVars, argc, file, unpacked, last_cmd, elf_out, nlm_out>>

UnpackStepDone(r) ==
    /\ st' = r.s
    /\ unpacked' = r.result
    /\ last_cmd' = r.cmd
    /\ pc' = IF r.panic # "none" THEN "panic" ELSE pc
    /\ err' = IF r.panic # "none" THEN Panic(r.panic) ELSE err

\* one iteration of unpack's loop
UnpackStep ==
    /\ pc = "unpack"
    /\ Len(unpacked) < declen
    /\ UnpackStepDone(UnpackIteration(st, file.bytes, unpacked, trees[1], trees[2], trees[3]))
    /\ UNCHANGED <<build, streamVars, elfVars, argc, file, trees, length, declen, nlm, elf_out,
                   nlm_out>>

\* unpack returns; NLM::new pieces the image together
UnpackReturn ==
    /\ pc = "unpack"
    /\ ~(Len(unpacked) < declen)
    /\ IF Len(file.bytes) < NLM_PACKED_OFFSET \/ ToNat(length) < NLM_PACKED_OFFSET
       THEN pc' = "panic" /\ err' = Panic("slice index") /\ nlm' = nlm
       ELSE IF Len(unpacked) # ToNat(length) - NLM_PACKED_OFFSET
       THEN /\ pc' = "panic" /\ nlm' = nlm
            /\ err' = Panic("copy_from_slice: source slice length does not match")
       ELSE /\ pc' = "loaded" /\ err' = err
            /\ nlm' = [header |-> NLMHeader_from(file.bytes),
                       data |-> Assemble(file.bytes, unpacked, ToNat(length))]
    /\ UNCHANGED <<build, streamVars, elfVars, argc, file, st, trees, length, declen, unpacked,
                   last_cmd, elf_out, nlm_out>>

\* write_elf up to the fixup loop: `let fixups = self.get_fixups()?`
WriteElfBeginDone(fixups) ==
    /\ pc' = CASE fixups.status = "ok" -> "fixups"
               [] fixups.status = "err" -> "exit_err"
               [] OTHER -> "panic"
    /\ err' = IF fixups.status = "ok" THEN err ELSE Panic(fixups.why)
    /\ img' = nlm.data
    /\ fixq' = fixups.v

WriteElfBegin ==
    /\ pc = "loaded"
    /\ WriteElfBeginDone(get_fixups(nlm))
    /\ UNCHANGED <<build, streamVars, mainVars0, nlm, elf_out, lastfix>>

WriteElfFixupDone(r) ==
    /\ img' = r.img
    /\ fixq' = Tail(fixq)
    /\ lastfix' = [taken |-> TRUE, fixup |-> Head(fixq), before |-> img, status |-> r.status]
    /\ pc' = IF r.status = "ok" THEN pc ELSE "panic"
    /\ err' = IF r.status = "ok" THEN err ELSE Panic(r.why)

\* one iteration of `for fixup in &fixups`
WriteElfFixup ==
    /\ pc = "fixups"
    /\ fixq # <<>>
    /\ WriteElfFixupDone(apply_fixup(img, nlm.header, Head(fixq)))
    /\ UNCHANGED <<build, streamVars, mainVars0, nlm, elf_out>>

WriteElfEmitDone(r) ==
    /\ pc' = CASE r.status = "ok" -> "elf_written"
               [] r.status = "err" -> "exit_err"
               [] OTHER -> "panic"
    /\ elf_out' = IF r.status = "ok" THEN r ELSE elf_out
    /\ err' = IF r.status = "ok" THEN err ELSE Panic(r.why)

\* the rest of write_elf, to std::fs::write(fname, out_data)
WriteElfEmit ==
    /\ pc = "fixups"
    /\ fixq = <<>>
    /\ WriteElfEmitDone(WriteExternals(nlm, img, get_externals(nlm)))
    /\ UNCHANGED <<build, streamVars, elfVars, mainVars0, nlm>>

\* write_nlm writing the image write_elf applied the fixups to
WriteNlm_FixedImage ==
    /\ pc = "elf_written"
    /\ nlm_out' = IF argc >= 4 THEN [written |-> TRUE, data |-> img] ELSE nlm_out
    /\ pc' = "exit_ok"
    /\ UNCHANGED <<build, streamVars, elfVars, argc, file, st, trees, length, declen, unpacked,
                   last_cmd, nlm, err, elf_out>>

\* `if args.len() >= 4 { nlm.write_nlm(&args[3])?; }` and Ok(())
WriteNlm ==
    /\ pc = "elf_written"
    /\ nlm_out' = IF argc >= 4 THEN [written |-> TRUE, data |-> nlm.data] ELSE nlm_out
    /\ pc' = "exit_ok"
    /\ UNCHANGED <<build, streamVars, elfVars, argc, file, st, trees, length, declen, unpacked,
                   last_cmd, nlm, err, elf_out>>

Next ==
    \/ MainRead \/ NLMNew \/ UnpackStep \/ UnpackReturn
    \/ WriteElfBegin \/ WriteElfFixup \/ WriteElfEmit \/ WriteNlm

Spec == Init /\ [][Next]_vars


\* ------------------------------------------------------------ properties
Packed(bytes) == Len(bytes) >= NLM_HEADER_SIZE /\ U32At(bytes, 24) = <<0, NLM_PACKED_VERSION>>

\* NLM::new has returned an image unpacked from a packed file
ReturnedUnpacked == nlm.header.ok /\ Packed(file.bytes)

\* C1: whenever NLM::new returns an image U for a packed file P whose length
\* field is L, len(U) = L, U[0x18] = 4 and every other of the first 400 bytes
\* of U is that of P.
C1_UnpackedImage ==
    ReturnedUnpacked =>
        /\ IsSmall(length) /\ Len(nlm.data) = ToNat(length)
        /\ \A i \in 1..NLM_PACKED_OFFSET :
              nlm.data[i] = IF i = 25 THEN 4 ELSE file.bytes[i]

C1_Witness == ReturnedUnpacked /\ last_cmd.kind \in {"copy", "escape"} /\ Len(unpacked) > 2

\* C3: every copy-back command of unpack that reaches its loop with a byte to
\* copy has a distance of at least 1 and at most the output length.
C3_DistanceInRange ==
    (last_cmd.kind \in {"copy", "longcopy"} /\ last_cmd.count >= 1) =>
        (1 <= last_cmd.delta /\ last_cmd.delta <= last_cmd.len_before)

\* the offset (segment_offs + local_offs) mod 2^32 of the fixup taken last
FixupTarget == AddU32(FromNat(lastfix.fixup.val), FixupSegment(nlm.header, lastfix.fixup)).v

\* C4: a fixup whose four bytes lie in the image is applied whatever the old
\* word and the offsets are: afterwards the image differs from the image
\* before only in those four bytes, which hold (old word + V) mod 2^32.
C4_FixupAddsVaddr ==
    (lastfix.taken /\ IsSmall(FixupTarget) /\ ToNat(FixupTarget) + 4 <= Len(lastfix.before)) =>
        /\ lastfix.status = "ok"
        /\ img = PatchU32(lastfix.before, ToNat(FixupTarget),
                          AddU32(U32At(lastfix.before, ToNat(FixupTarget)),
                                 FromNat(FixupVaddr(lastfix.fixup))).v)

\* C5: an input whose first 24 bytes are not the magic gets no further than
\* the header: no decompression, no table extraction, no output file.
C5_BadMagicFails ==
    (file.readable /\ Len(file.bytes) >= NLM_HEADER_SIZE /\ SubSeq(file.bytes, 1, 24) # NLM_MAGIC) =>
        /\ pc \in {"main", "new", "exit_ok", "exit_err"}
        /\ (pc = "exit_ok" => argc < 3)
        /\ elf_out.status = "none"
        /\ ~nlm_out.written

\* a packed file with a whole first word of payload whose first two bytes are
\* not (1, 10), once NLM::new has been left
BadPreamble ==
    /\ Packed(file.bytes) /\ Len(file.bytes) >= NLM_PACKED_OFFSET + 4
    /\ (file.bytes[NLM_PACKED_OFFSET + 1] # 1 \/ file.bytes[NLM_PACKED_OFFSET + 2] # 10)
    /\ pc \notin {"main", "new"}
    /\ argc >= 3

\* C6: for a packed input whose first two 8-bit values (a, b) are not (1, 10),
\* NLM::new returns InvalidCompression(a, b) before the length or a tree is
\* read, and the run ends with neither output written.
C6_InvalidCompression ==
    BadPreamble =>
        /\ pc = "exit_err"
        /\ err = [kind |-> "InvalidCompression", a |-> file.bytes[NLM_PACKED_OFFSET + 1],
                  b |-> file.bytes[NLM_PACKED_OFFSET + 2]]
        /\ trees = <<>> /\ length = <<0, 0>> /\ unpacked = <<>>
        /\ ~nlm.header.ok
        /\ elf_out.status = "none"
        /\ ~nlm_out.written

C6_Witness == BadPreamble /\ file.bytes[NLM_PACKED_OFFSET + 1] = 1 /\ argc = 4

Emitted == elf_out.status = "ok"
ExportsOf == get_exports(nlm).v
ExternalsOf == get_externals(nlm).v

\* C7: the symbol table of every emitted ELF is the null symbol, the E exports
\* in table order (LOCAL FUNC), nlm_start, nlm_terminate, nlm_check (LOCAL
\* FUNC), the X externals in table order (GLOBAL NOTYPE, value 0, section 0),
\* and .symtab's sh_info is E + 4.
C7_SymbolOrder ==
    Emitted =>
        LET E == Len(ExportsOf)
            X == Len(ExternalsOf)
            t == elf_out.symtab
        IN  /\ Len(t) = 1 + E + 3 + X
            /\ t[1] = [name |-> <<>>, st_info |-> 0, st_shndx |-> 0, st_value |-> <<0, 0>>]
            /\ \A i \in 1..E : t[1 + i].name = ExportsOf[i].name /\ t[1 + i].st_info = 2
            /\ <<t[E + 2].name, t[E + 3].name, t[E + 4].name>>
                  = <<SYM_nlm_start, SYM_nlm_terminate, SYM_nlm_check>>
            /\ \A i \in 2..4 : t[E + i].st_info = 2
            /\ \A j \in 1..X :
                  t[E + 4 + j] = [name |-> ExternalsOf[j].name, st_info |-> 16, st_shndx |-> 0,
                                  st_value |-> <<0, 0>>]
            /\ elf_out.sections[SYMTAB_INDEX + 1].sh_type = "SYMTAB"
            /\ elf_out.sections[SYMTAB_INDEX + 1].sh_info = E + 4

C7_Witness == Emitted /\ Len(ExportsOf) = 2 /\ Len(ExternalsOf) = 2

\* the references of the externals table that lie in code (or in data), each
\* with the number n of its external, in table order then reference order
RefsFrom(from_code) ==
    SelectSeq(AllRefs(ExternalsOf, 0), LAMBDA r : (r.ref.type \in {4, 12}) = from_code)

\* C8: r_sym of every relocation entry is the symbol table index of the
\* external the reference belongs to: E + 4 + n for external n, where an
\* undefined GLOBAL symbol with that external's name stands.
C8_RelocSymbol ==
    Emitted =>
        \A from_code \in BOOLEAN :
            LET rel == IF from_code THEN elf_out.rel_text ELSE elf_out.rel_data
                refs == RefsFrom(from_code)
            IN  /\ Len(rel) = Len(refs)
                /\ \A i \in 1..Len(rel) :
                      /\ rel[i].r_sym = Len(ExportsOf) + 4 + refs[i].n
                      /\ elf_out.symtab[rel[i].r_sym + 1].name = ExternalsOf[refs[i].n + 1].name
                      /\ elf_out.symtab[rel[i].r_sym + 1].st_shndx = 0
                      /\ elf_out.symtab[rel[i].r_sym + 1].st_info = 16

C8_Witness ==
    /\ Emitted /\ Len(ExternalsOf) = 2
    /\ \E i \in 1..Len(elf_out.rel_text) : elf_out.rel_text[i].r_sym = Len(ExportsOf) + 5
    /\ \E i \in 1..Len(elf_out.rel_data) : elf_out.rel_data[i].r_sym = Len(ExportsOf) + 4

\* C9: .rel.text holds one entry per from-code reference (types 4, 0xc) and
\* .rel.data one per from-data reference (types 0, 8), in table order then
\* reference order, with r_offset the value plus the segment's virtual
\* address and r_type R_386_32 for the absolute types 8, 0xc and R_386_PC32
\* for the relative types 0, 4; each section header records as many entries as
\* are written.
C9_OneRelPerRef ==
    Emitted =>
        /\ \A from_code \in BOOLEAN :
            LET rel == IF from_code THEN elf_out.rel_text ELSE elf_out.rel_data
                refs == RefsFrom(from_code)
                sh == elf_out.sections[IF from_code THEN 3 ELSE 5]
            IN  /\ Len(rel) = Len(refs)
                /\ sh.sh_type = "REL" /\ sh.sh_size = ELF_REL_SIZE * Len(rel)
                /\ \A i \in 1..Len(rel) :
                      /\ rel[i].r_offset = refs[i].ref.val
                                           + (IF from_code THEN 268435456 ELSE 1073741824)
                      /\ rel[i].r_type = IF refs[i].ref.type \in {8, 12} THEN 1 ELSE 2
        /\ Len(elf_out.rel_text) + Len(elf_out.rel_data) = Len(AllRefs(ExternalsOf, 0))

C9_Witness ==
    /\ Emitted
    /\ Len(elf_out.rel_text) = 2 /\ Len(elf_out.rel_data) = 2
    /\ elf_out.rel_text[1].r_type # elf_out.rel_text[2].r_type

SegmentLen(from_data) == ToNat(IF from_data THEN nlm.header.data_len ELSE nlm.header.code_len)

\* C11: every fixup write_elf applies and every reference it turns into a
\* relocation lies inside its segment: the four bytes at its value X are
\* within 0..code_len (from code) or 0..data_len (from data), and every
\* r_offset lies in [vaddr, vaddr + segment length) of the section its
\* relocation section targets.
C11_InsideSegment ==
    /\ (lastfix.taken /\ lastfix.status = "ok") =>
          lastfix.fixup.val + 4 <= SegmentLen(FixupFromData(lastfix.fixup))
    /\ Emitted =>
          /\ \A i \in 1..Len(elf_out.rel_text) :
                /\ elf_out.rel_text[i].r_offset >= NLM_CODE_VADDR
                /\ elf_out.rel_text[i].r_offset + 4 <= NLM_CODE_VADDR + SegmentLen(FALSE)
          /\ \A i \in 1..Len(elf_out.rel_data) :
                /\ elf_out.rel_data[i].r_offset >= NLM_DATA_VADDR
                /\ elf_out.rel_data[i].r_offset + 4 <= NLM_DATA_VADDR + SegmentLen(TRUE)

\* word >> 28 and word & 0x3FFFFFF of a word <<high half, low half>>
TypeNibble(w) == w[1] \div 4096
Value26(w) == (w[1] % 1024) * 65536 + w[2]

\* the words of the three tables, read off the image at the offsets the header
\* gives: the fixup words, the ref-words of all externals, the export words
FixupWordsOf ==
    [i \in 1..ToNat(nlm.header.fixup_len) |->
        U32At(nlm.data, ToNat(nlm.header.fixup_offs) + 4 * (i - 1))]

RECURSIVE RefWordsAt(_, _, _)
RefWordsAt(data, pos, n) ==
    IF n = 0 THEN <<>>
    ELSE LET at == pos + 1 + data[pos + 1]
             num == ToNat(U32At(data, at))
         IN  [i \in 1..num |-> U32At(data, at + 4 * i)] \o RefWordsAt(data, at + 4 + 4 * num, n - 1)

RefWordsOf ==
    RefWordsAt(nlm.data, ToNat(nlm.header.externals_offs), ToNat(nlm.header.externals_len))

RECURSIVE ExportWordsAt(_, _, _)
ExportWordsAt(data, pos, n) ==
    IF n = 0 THEN <<>>
    ELSE LET at == pos + 1 + data[pos + 1]
         IN  <<U32At(data, at)>> \o ExportWordsAt(data, at + 4, n - 1)

ExportWordsOf ==
    ExportWordsAt(nlm.data, ToNat(nlm.header.exported_offs), ToNat(nlm.header.exported_len))

Rejected(words, accepted) == \E i \in 1..Len(words) : TypeNibble(words[i]) \notin accepted

\* the nibble of the first word of a table that the table does not accept
FirstRejected(words, accepted) ==
    TypeNibble(words[CHOOSE i \in 1..Len(words) :
                        /\ TypeNibble(words[i]) \notin accepted
                        /\ \A j \in 1..(i - 1) : TypeNibble(words[j]) \in accepted])

\* the run stopped in a panic with this diagnostic and wrote no ELF
AbortedWith(diagnostic) == pc = "panic" /\ err.kind = diagnostic /\ elf_out.status = "none"

\* the relocations of every emitted ELF are those of the ref-words, by nibble
RefsClassified ==
    \A from_code \in BOOLEAN :
        LET rel == IF from_code THEN elf_out.rel_text ELSE elf_out.rel_data
            mine == SelectSeq(RefWordsOf,
                              LAMBDA w : TypeNibble(w) \in (IF from_code THEN {4, 12} ELSE {0, 8}))
        IN  /\ Len(rel) = Len(mine)
            /\ \A i \in 1..Len(rel) :
                  /\ rel[i].r_offset
                        = Value26(mine[i]) + (IF from_code THEN 268435456 ELSE 1073741824)
                  /\ rel[i].r_type = IF TypeNibble(mine[i]) \in {8, 12} THEN 1 ELSE 2

\* the export symbols of every emitted ELF are those of the export words
ExportsClassified ==
    \A i \in 1..Len(ExportWordsOf) :
        LET sym == elf_out.symtab[1 + i]
            code == TypeNibble(ExportWordsOf[i]) = 8
        IN  /\ sym.st_shndx = IF code THEN 1 ELSE 3
            /\ sym.st_value = FromNat(Value26(ExportWordsOf[i])
                                      + (IF code THEN 268435456 ELSE 1073741824))

\* C12: get_fixups, get_externals and get_exports classify each word by
\* word >> 28 and keep word & 0x3FFFFFF: fixups and ref-words accept exactly
\* 0x0, 0x4, 0x8, 0xC, exports exactly 0x0 (data) and 0x8 (code).  Any other
\* nibble (0x4 and 0xC in an export too) aborts the conversion with the nibble
\* in the diagnostic, and no record and no ELF comes of it.
C12_NibbleClassification ==
    (nlm.header.ok /\ pc \notin {"main", "new", "unpack", "loaded"}) =>
        IF Rejected(FixupWordsOf, {0, 4, 8, 12})
        THEN /\ AbortedWith("unsupported fixup type " \o Hex(FirstRejected(FixupWordsOf, {0, 4, 8, 12})))
             /\ fixq = <<>> /\ ~lastfix.taken
        ELSE /\ (pc = "fixups" /\ ~lastfix.taken) =>
                  fixq = [i \in 1..Len(FixupWordsOf) |->
                             [type |-> TypeNibble(FixupWordsOf[i]), val |-> Value26(FixupWordsOf[i])]]
             /\ (pc # "fixups" /\ lastfix.status # "panic") =>
                  IF Rejected(RefWordsOf, {0, 4, 8, 12})
                  THEN AbortedWith("unrecognized ref type " \o Hex(FirstRejected(RefWordsOf, {0, 4, 8, 12})))
                  ELSE IF Rejected(ExportWordsOf, {0, 8})
                  THEN AbortedWith("unrecognized export type " \o Hex(FirstRejected(ExportWordsOf, {0, 8})))
                  ELSE Emitted => RefsClassified /\ ExportsClassified

C12_Witness ==
    /\ nlm.header.ok /\ AbortedWith("unrecognized export type c")
    /\ Len(ExportWordsOf) = 2 /\ TypeNibble(ExportWordsOf[1]) = 8

\* the names of a table, read off the image: each a length byte and that many
\* bytes, followed by nothing (autoload), a word (exports) or a count and
\* that many words (externals)
RECURSIVE NamesAt(_, _, _, _)
NamesAt(data, pos, n, table) ==
    IF n = 0 THEN <<>>
    ELSE LET at == pos + 1 + data[pos + 1]
             after == CASE table = "autoload" -> at
                        [] table = "exports" -> at + 4
                        [] OTHER -> at + 4 + 4 * ToNat(U32At(data, at))
         IN  <<SubSeq(data, pos + 2, at)>> \o NamesAt(data, after, n - 1, table)

ExternalNamesOf ==
    NamesAt(nlm.data, ToNat(nlm.header.externals_offs), ToNat(nlm.header.externals_len), "externals")
ExportNamesOf ==
    NamesAt(nlm.data, ToNat(nlm.header.exported_offs), ToNat(nlm.header.exported_len), "exports")
AutoloadNamesOf ==
    NamesAt(nlm.data, ToNat(nlm.header.autoload_offs), ToNat(nlm.header.autoload_len), "autoload")

InvalidText(names) == \E i \in 1..Len(names) : ~Utf8Valid(names[i])

\* write_elf is past its readers (or has stopped in one of them), with tables
\* whose words are all of accepted types
ReadersRan ==
    /\ nlm.header.ok /\ pc \in {"panic", "exit_err", "elf_written", "exit_ok"}
    /\ lastfix.status # "panic"
    /\ ~Rejected(FixupWordsOf, {0, 4, 8, 12})
    /\ ~Rejected(RefWordsOf, {0, 4, 8, 12})
    /\ ~Rejected(ExportWordsOf, {0, 8})

\* C13: a name of the externals, exports or autoload table with bytes that
\* are not valid text does not make the reader fail: the reader goes on with
\* the next record, every record yields its symbol or autoload entry, and the
\* names that are valid text are kept as they are.
C13_InvalidNameFallback ==
    (ReadersRan /\ InvalidText(ExternalNamesOf \o ExportNamesOf \o AutoloadNamesOf)) =>
        /\ Emitted
        /\ Len(elf_out.symtab) = 1 + Len(ExportNamesOf) + 3 + Len(ExternalNamesOf)
        /\ \A i \in 1..Len(ExportNamesOf) :
              Utf8Valid(ExportNamesOf[i]) => elf_out.symtab[1 + i].name = ExportNamesOf[i]

\* the little-endian 32-bit word at a byte offset of the input file
FileWord(offs) ==
    <<file.bytes[offs + 4] * 256 + file.bytes[offs + 3],
      file.bytes[offs + 2] * 256 + file.bytes[offs + 1]>>

\* the twenty words from offset 42 on are the fields named, in this order
WordsFrom42(fields) == \A i \in 1..20 : nlm.header[fields[i]] = FileWord(42 + 4 * (i - 1))

\* magic at 0, load_version at 24, name at 28, nlm_type the byte at 122
HeaderEnds ==
    /\ nlm.header.magic = [i \in 1..24 |-> file.bytes[i]]
    /\ nlm.header.load_version = FileWord(24)
    /\ nlm.header.name = [i \in 1..14 |-> file.bytes[28 + i]]
    /\ nlm.header.nlm_type = file.bytes[123]

\* C14 (as claimed): from offset 42 on come the (offset, length) pairs of code,
\* data, custom data, autoload, fixup, externals, exports, debug, then
\* uninit_len (offset 106), then start_offs, term_offs, check_offs; the word
\* at offset 58 is custom_data_offs.
C14_DocumentedLayout ==
    nlm.header.ok =>
        /\ HeaderEnds
        /\ WordsFrom42(<<"code_offs", "code_len", "data_offs", "data_len",
                         "custom_data_offs", "custom_data_len", "autoload_offs", "autoload_len",
                         "fixup_offs", "fixup_len", "externals_offs", "externals_len",
                         "exported_offs", "exported_len", "debug_offs", "debug_len",
                         "uninit_len", "start_offs", "term_offs", "check_offs">>)

\* C14 (amended): from offset 42 on come code_offs, code_len, data_offs,
\* data_len, then uninit_len (offset 58), then the (offset, length) pairs of
\* custom data (offset 62), autoload, fixup, externals, exports, debug (its
\* length at offset 106), then start_offs (110), term_offs, check_offs; magic,
\* load_version, name and the nlm_type byte are where the claim has them.
C14_HeaderLayout ==
    nlm.header.ok =>
        /\ HeaderEnds
        /\ WordsFrom42(<<"code_offs", "code_len", "data_offs", "data_len", "uninit_len",
                         "custom_data_offs", "custom_data_len", "autoload_offs", "autoload_len",
                         "fixup_offs", "fixup_len", "externals_offs", "externals_len",
                         "exported_offs", "exported_len", "debug_offs", "debug_len",
                         "start_offs", "term_offs", "check_offs">>)

C14_Witness ==
    /\ nlm.header.ok
    /\ nlm.header.uninit_len = <<1, 2>> /\ nlm.header.custom_data_offs = <<3, 4>>
    /\ nlm.header.debug_len = <<9, 0>> /\ nlm.header.nlm_type = 5

\* main has returned Ok(()): the process exits with status 0.  (An Err from
\* main exits with status 1, a panic with status 101, both after a message on
\* stderr.)
ExitsZero == pc = "exit_ok"

\* C15: the process exits with status 0 only when the conversion succeeded:
\* out.elf was written, and out.nlm too when a third argument is given.
C15_ZeroOnlyOnSuccess ==
    ExitsZero => (elf_out.status = "ok" /\ (argc >= 4 => nlm_out.written))

\* C16: in every emitted ELF e_entry = start_offs + 0x10000000, the sum not
\* wrapping past 2^32, the entry lies in .text's range [0x10000000,
\* 0x10000000 + code_len), and the nlm_start symbol has the same value.
C16_EntryInText ==
    Emitted =>
        /\ nlm.header.start_offs[1] + 4096 < 65536
        /\ elf_out.e_entry = <<nlm.header.start_offs[1] + 4096, nlm.header.start_offs[2]>>
        /\ IsSmall(nlm.header.start_offs)
        /\ ToNat(nlm.header.start_offs) < ToNat(nlm.header.code_len)
        /\ LET sym == elf_out.symtab[ToNat(nlm.header.exported_len) + 2]
           IN  sym.name = SYM_nlm_start /\ sym.st_value = elf_out.e_entry

\* the number of bits of the input file that lie before the streamer's next
\* bit: what the cursor has passed, less what is still buffered
BitPos(s) == 8 * s.pos - s.bits_left

\* the symbol a tree gives for the bits of the file from bit p on (first child
\* on 0, second on 1), and the bit after it
RECURSIVE RefSymbol(_, _)
RefSymbol(node, p) ==
    IF node.link = <<>> THEN [v |-> node.value, next |-> p]
    ELSE RefSymbol(node.link[BitAt(file.bytes, p) + 1], p + 1)

RefField(p, k) == ToNat(RefBits(file.bytes, p, k))

\* the command that starts at bit p when the fields are laid out in the
\* claimed order, and the bit after its last field
RefCopy(kind, count, low_at, b3) ==
    [kind |-> kind, count |-> count, delta |-> b3.v * 32 + RefField(low_at, 5), value |-> 0,
     next |-> b3.next]

RefAfterB2(b2) ==
    IF b2.v <= 253 THEN RefCopy("copy", b2.v, b2.next, RefSymbol(trees[3], b2.next + 5))
    ELSE IF b2.v = 254
    THEN RefCopy("longcopy", RefField(b2.next, 13), b2.next + 13, RefSymbol(trees[3], b2.next + 18))
    ELSE [kind |-> "escape", count |-> 0, delta |-> 0, value |-> 0, next |-> b2.next]

RefAfterB1(b1) == [kind |-> "literal", count |-> 1, delta |-> 0, value |-> b1.v, next |-> b1.next]

RefCommand(p) ==
    IF BitAt(file.bytes, p) = 1 THEN RefAfterB1(RefSymbol(trees[1], p + 1))
    ELSE RefAfterB2(RefSymbol(trees[2], p + 1))

\* an iteration of unpack's loop that ran to its end
Iterated == pc = "unpack" /\ pc' = "unpack" /\ st' # st

IteratedAs(r) ==
    /\ last_cmd'.kind = r.kind
    /\ r.kind # "escape" =>
          /\ last_cmd'.count = r.count /\ last_cmd'.delta = r.delta
          /\ BitPos(st') = r.next
    /\ r.kind = "literal" => unpacked' = Append(unpacked, r.value)

\* C17: every iteration of unpack's loop takes its fields from the bit stream
\* in a fixed order, starting at the bit after the last field of the command
\* before: the tag bit; for tag 1 one T1 symbol; for tag 0 the T2 symbol B2,
\* then for B2 <= 0xFD the 5-bit low offset and the T3 symbol, for B2 = 0xFE
\* the 13-bit count, the 5-bit low offset and the T3 symbol; and it reads no
\* other bit.
C17_FieldOrder == [][Iterated => IteratedAs(RefCommand(BitPos(st)))]_vars

C17_Witness ==
    /\ pc = "loaded" /\ Packed(file.bytes)
    /\ last_cmd.kind = "longcopy" /\ last_cmd.count = 2 /\ last_cmd.len_before = 1

\* an iteration of unpack's loop that decoded a copy-back (short or long)
\* whose distance is at least 1 and at most the output length
CopiedBack ==
    /\ pc = "unpack" /\ st' # st
    /\ last_cmd'.kind \in {"copy", "longcopy"}
    /\ 1 <= last_cmd'.delta /\ last_cmd'.delta <= Len(unpacked)

\* C18: a copy-back of c bytes at distance d, 1 <= d <= n, on an output of n
\* bytes appends exactly c bytes, leaves the n bytes as they are, and makes
\* out[n + k] = out[n + k - d] for every k < c, so that for c > d the bytes it
\* has just appended are the ones read; with c = 0 it appends nothing.
C18_CopyBack ==
    [][CopiedBack =>
          /\ pc' = "unpack"
          /\ Len(unpacked') = Len(unpacked) + last_cmd'.count
          /\ \A i \in 1..Len(unpacked) : unpacked'[i] = unpacked[i]
          /\ \A k \in 0..(last_cmd'.count - 1) :
                unpacked'[Len(unpacked) + k + 1]
                    = unpacked'[Len(unpacked) + k - last_cmd'.delta + 1]]_vars

C18_Witness ==
    /\ pc = "unpack" /\ last_cmd.kind = "copy" /\ last_cmd.count = 3 /\ last_cmd.delta = 2
    /\ last_cmd.len_before = 12 /\ Len(unpacked) = 15

\* an iteration of unpack's loop that decoded the escape symbol B2 = 0xFF
Escaped == pc = "unpack" /\ st' # st /\ last_cmd'.kind = "escape"

\* the first byte boundary at or after the bit where the escape symbol ended,
\* as a number of bytes of the file
EscapeBoundary == (RefCommand(BitPos(st)).next + 7) \div 8

\* 11 + n, with n = (b_top << 16) + (b_high << 8) + b_low + 1 of the 9th, 10th
\* and 11th byte from the boundary on
EscapeRun(at) ==
    11 + file.bytes[at + 11] * 65536 + file.bytes[at + 10] * 256 + file.bytes[at + 9] + 1

\* the file holds the whole run of the escape
EscapeRunInFile(at) ==
    at + 11 <= Len(file.bytes) /\ at + EscapeRun(at) <= Len(file.bytes)

\* C19: on the escape symbol the streamer drops buffered bits up to the next
\* byte boundary and reads nothing; the 11 + n read_bits(8) that follow return
\* the bytes of the source from that boundary on, in order, across word
\* refills and in the tail bytes too, and all of them are appended.
C19_EscapeRun ==
    [][(Escaped /\ EscapeRunInFile(EscapeBoundary)) =>
          /\ RefCommand(BitPos(st)).kind = "escape"
          /\ pc' = "unpack"
          /\ unpacked' = unpacked \o SubSeq(file.bytes, EscapeBoundary + 1,
                                            EscapeBoundary + EscapeRun(EscapeBoundary))
          /\ BitPos(st') = 8 * (EscapeBoundary + EscapeRun(EscapeBoundary))]_vars

\* ----------------------------------------------------- the tree harness
\* read_tree and decode_from_tree on their own: a buffer holds some bits, then
\* the bits of a tree, then bits to decode; the harness reads single bits,
\* then one tree from wherever the streamer stands, then symbols.
MaxSkip == 9

\* a single leaf; two leaves; a chain to the second child; a chain to the
\* first child; the count tree of the packed payloads
TreeShapes ==
    {Leaf(7), Fork(Leaf(65), Leaf(66)),
     Fork(Leaf(1), Fork(Leaf(2), Fork(Leaf(3), Leaf(4)))),
     Fork(Fork(Fork(Leaf(1), Leaf(2)), Leaf(3)), Leaf(255)),
     GenTree2}

SkipBits(k) == [i \in 1..k |-> IF i % 3 = 0 THEN 1 ELSE 0]

SymbolBits == {<<>>, <<1, 1, 1, 0, 0, 0, 1, 1, 0>>, <<1, 0, 1, 1, 0, 0, 1, 0, 0>>}

TreeBuffers ==
    {PackBytes(SkipBits(k) \o TreeBits(t) \o d) :
        <<k, t, d>> \in (0..MaxSkip) \X TreeShapes \X SymbolBits}

treeRest ==
    <<build, sdata, nlm, elf_out, argc, file, st, length, declen, unpacked, last_cmd, nlm_out,
      img, fixq, lastfix>>

TreeInit ==
    /\ build \in {b \in Builds : ~b.overflow_checks}
    /\ MainIdle /\ ElfIdle
    /\ pc = "tree" /\ nlm = NoNlm /\ elf_out = NoElf
    /\ sdata \in TreeBuffers
    /\ stream = Streamer_new(0)
    /\ drawn = 0
    /\ last = [k |-> 0, v |-> <<0, 0>>]

TreePanic(s) == IF s.eos THEN [NoErr EXCEPT !.kind = "end of stream"] ELSE NoErr

\* streamer.read_bit() before the tree
TreeSkip ==
    /\ pc = "tree"
    /\ drawn < MaxSkip
    /\ LET r == read_bit(stream, sdata)
       IN  /\ stream' = r.s
           /\ last' = [k |-> 1, v |-> <<0, r.bit>>]
           /\ pc' = IF r.s.eos THEN "panic" ELSE "tree"
           /\ err' = TreePanic(r.s)
    /\ drawn' = drawn + 1
    /\ UNCHANGED <<trees, treeRest>>

\* let tree = read_tree(&mut streamer, 0)
TreeRead ==
    /\ pc = "tree"
    /\ LET r == read_tree(stream, sdata)
       IN  /\ stream' = r.s
           /\ trees' = IF r.s.eos THEN trees ELSE <<r.t>>
           /\ last' = [k |-> IF r.s.eos THEN 0 ELSE BitPos(r.s) - BitPos(stream), v |-> <<0, 0>>]
           /\ drawn' = drawn + (IF r.s.eos THEN 0 ELSE BitPos(r.s) - BitPos(stream))
           /\ pc' = IF r.s.eos THEN "panic" ELSE "decode"
           /\ err' = TreePanic(r.s)
    /\ UNCHANGED treeRest

\* decode_from_tree(&mut streamer, &tree)
TreeDecode ==
    /\ pc = "decode"
    /\ LET r == decode_from_tree(stream, sdata, trees[1])
       IN  /\ stream' = r.s
           /\ last' = [k |-> IF r.s.eos THEN 0 ELSE BitPos(r.s) - BitPos(stream), v |-> <<0, r.v>>]
           /\ drawn' = drawn + (IF r.s.eos THEN 0 ELSE BitPos(r.s) - BitPos(stream))
           /\ pc' = IF r.s.eos THEN "panic" ELSE "decode"
           /\ err' = TreePanic(r.s)
    /\ UNCHANGED <<trees, treeRest>>

TreeNext == TreeSkip \/ TreeRead \/ TreeDecode

SpecTree == TreeInit /\ [][TreeNext]_vars

RECURSIVE NumLeaves(_)
NumLeaves(t) == IF t.link = <<>> THEN 1 ELSE NumLeaves(t.link[1]) + NumLeaves(t.link[2])

\* every node has no child or two
RECURSIVE IsFull(_)
IsFull(t) == t.link = <<>> \/ (Len(t.link) = 2 /\ IsFull(t.link[1]) /\ IsFull(t.link[2]))

\* bits p .. of B are the tree t: a 1 bit and the eight bits of a leaf value,
\* or a 0 bit, the whole first subtree and then the whole second subtree
RECURSIVE Encodes(_, _, _)
Encodes(t, B, p) ==
    IF t.link = <<>>
    THEN /\ p + 9 <= 8 * Len(B)
         /\ BitAt(B, p) = 1
         /\ t.value = ToNat(RefBits(B, p + 1, 8))
    ELSE /\ p < 8 * Len(B)
         /\ BitAt(B, p) = 0
         /\ Encodes(t.link[1], B, p + 1)
         /\ Encodes(t.link[2], B, p + 1 + (10 * NumLeaves(t.link[1]) - 1))

\* the leaf the bits of B from bit p on lead to (first child on 0, second on
\* 1) and its depth; no leaf when the bits run out
RECURSIVE Walk(_, _, _, _)
Walk(node, B, p, depth) ==
    IF node.link = <<>> THEN [value |-> node.value, depth |-> depth]
    ELSE IF p >= 8 * Len(B) THEN [value |-> -1, depth |-> -1]
    ELSE Walk(node.link[BitAt(B, p) + 1], B, p + 1, depth + 1)

TreeWasRead == pc = "tree" /\ pc' = "decode"
SymbolDecoded == pc = "decode" /\ pc' = "decode"

\* C20: read_tree, started at any bit position, returns a full binary tree
\* whose encoding (1 and eight value bits for a leaf; 0, first subtree, second
\* subtree otherwise) is what it read, 10k - 1 bits for k leaves;
\* decode_from_tree returns the leaf the next bits lead to, first child on 0
\* and second on 1, and consumes as many bits as the leaf is deep.
C20_SelfDelimitingTree ==
    [][/\ TreeWasRead =>
            /\ IsFull(trees'[1])
            /\ Encodes(trees'[1], sdata, BitPos(stream))
            /\ BitPos(stream') = BitPos(stream) + 10 * NumLeaves(trees'[1]) - 1
       /\ SymbolDecoded =>
            LET leaf == Walk(trees[1], sdata, BitPos(stream), 0)
            IN  /\ last'.v = <<0, leaf.value>>
                /\ BitPos(stream') = BitPos(stream) + leaf.depth]_vars

\* the tree of five leaves read at bit 5 of the buffer, and its deepest leaf
\* (three bits) decoded right after it
C20_Witness ==
    /\ pc = "decode"
    /\ sdata = PackBytes(SkipBits(5) \o TreeBits(GenTree2) \o <<1, 1, 1, 0, 0, 0, 1, 1, 0>>)
    /\ trees = <<GenTree2>>
    /\ drawn = 5 + 49 + 3
    /\ last = [k |-> 3, v |-> <<0, 255>>]

\* ---------------------------------------------------------- termination
\* main up to the return of NLM::new, on the packed files.  main is one
\* thread that runs to its end: a step that can be taken is taken.
LiveInit ==
    /\ Init
    /\ argc = 4
    /\ file.readable
    /\ file.bytes \in PackedFiles

LiveNext == MainRead \/ NLMNew \/ UnpackStep \/ UnpackReturn

\* NLMNew can be taken exactly when pc = "new", UnpackStep exactly when pc =
\* "unpack" and the output is short of decompress_len: their weak fairness is
\* written with these in the place of ENABLED.
SpecLive ==
    /\ LiveInit /\ [][LiveNext]_vars
    /\ WF_vars(MainRead) /\ WF_vars(UnpackReturn)
    /\ ([]<>(pc # "new") \/ []<><<NLMNew>>_vars)
    /\ ([]<>(~(pc = "unpack" /\ Len(unpacked) < declen)) \/ []<><<UnpackStep>>_vars)

\* unpack's loop is left
UnpackTerminates == (pc = "unpack") ~> (pc # "unpack")

\* an iteration of unpack's loop that gets to its end has consumed a bit
IterationConsumesBit ==
    [][(pc = "unpack" /\ Len(unpacked) < declen /\ pc' = "unpack") =>
          BitPos(st') > BitPos(st)]_vars

\* an iteration of unpack's loop that does not get to its end was stopped by
\* the streamer, asked for a bit beyond the input
OnlyEndOfStream ==
    [][(pc = "unpack" /\ Len(unpacked) < declen /\ pc' # "unpack") =>
          /\ pc' = "panic"
          /\ err'.kind = "end of stream"
          /\ st'.eos]_vars

\* C21: decompression of a packed input terminates: unpack's loop is left,
\* either because the output has reached total_length - 400 bytes or because
\* the streamer raised end of stream; every iteration consumes at least one
\* bit, also one that appends nothing.
C21_FinishOrEndOfStream == UnpackTerminates /\ IterationConsumesBit /\ OnlyEndOfStream

\* ---------------------------------------------------- write_elf's frame
\* the image NLM::new returned: the file itself, or what it pieced together
\* from a packed one
LoadedImage ==
    IF Packed(file.bytes) THEN Assemble(file.bytes, unpacked, ToNat(length)) ELSE file.bytes

\* the fixup loop of a call of write_elf on its own copy of an image
RECURSIVE FixupLoop(_, _, _)
FixupLoop(nlm_data, header, fixups) ==
    IF fixups = <<>> THEN [status |-> "ok", why |-> "", img |-> nlm_data]
    ELSE LET r == apply_fixup(nlm_data, header, Head(fixups))
         IN  IF r.status # "ok" THEN r ELSE FixupLoop(r.img, header, Tail(fixups))

\* what a call of write_elf on the NLM object `self` writes
AgainAfterFixups(self, r) ==
    IF r.status # "ok" THEN ElfFailed(r.status, r.why)
    ELSE WriteExternals(self, r.img, get_externals(self))

AgainWithFixups(self, fixups) ==
    IF fixups.status # "ok" THEN ElfFailed(fixups.status, fixups.why)
    ELSE AgainAfterFixups(self, FixupLoop(self.data, self.header, fixups.v))

WriteElfAgain(self) == AgainWithFixups(self, get_fixups(self))

InWriteElf == pc \in {"loaded", "fixups"}

\* C22: write_elf leaves the NLM object's image and header as they were,
\* whether it succeeds or fails; the out.nlm main writes after it is the image
\* NLM::new returned, without any fixup; a call of write_elf on the object as
\* write_elf left it writes the same ELF again.
C22_PrivateCopy ==
    [][/\ InWriteElf => nlm' = nlm
       /\ nlm_out'.written => (nlm_out'.data = nlm'.data /\ nlm_out'.data = LoadedImage')
       /\ (InWriteElf /\ pc' = "elf_written") => elf_out' = WriteElfAgain(nlm')]_vars

\* out.elf and out.nlm are written, and a fixup has changed write_elf's copy
C22_Witness ==
    /\ pc = "exit_ok"
    /\ elf_out.status = "ok"
    /\ nlm_out.written
    /\ lastfix.taken
    /\ img # nlm.data

====
